---- MODULE Spec2Model ----
(***************************************************************************)
(* TerminalColony: the colony economy and the command execution engine.    *)
(* Buildings, planets, players and GameCore are modelled from              *)
(* src/src/game_core; the building and command configuration files are     *)
(* inputs of the program and are drawn from the tables below.              *)
(***************************************************************************)
EXTENDS Integers, Sequences, FiniteSets, TLC

VARIABLES
    buildings_config,   \* GameCore.buildings_config.buildings (name -> BuildingConfig)
    players,            \* GameCore.players (player name -> Player)
    current_player,     \* GameCore.current_player
    turn,               \* GameCore.turn.turn_number
    is_running,         \* GameCore.is_running
    last,               \* the last execute_command call: its command and its result
    history,            \* the execute_command calls so far: input, EndTurn counts
    unit,               \* a building driven directly through its own methods
    app                 \* App: its fields and the position of App::run

vars == <<buildings_config, players, current_player, turn, is_running, last,
          history, unit, app>>

\* ---------------------------------------------------------------- bounds
\* execute_command is not called for EndTurn once the counter reached MaxTurn
MaxTurn == 4
\* largest amount handed to Storage::add_resource by the building-level driver
MaxAmount == 3
\* largest max_level of the configurations drawn by the building-level driver
MaxUnitLevel == 2
\* the application loop hands at most MaxCommands inputs to execute_command
MaxCommands == 3

\* ---------------------------------------------------------------- Option
\* Option<T> is the set of at most one T
None == {}
Some(x) == {x}
Unwrap(o) == CHOOSE x \in o : TRUE

\* Vec::get(index): zero-based, None past the end
get(vec, index) == IF index < Len(vec) THEN Some(vec[index + 1]) ELSE None

Min(a, b) == IF a <= b THEN a ELSE b

\* u32::saturating_sub
saturating_sub(a, b) == IF a >= b THEN a - b ELSE 0

\* ---------------------------------------------------------------- Resource, BuildingTypeId
Resource == {"Energy", "Minerals", "Gas"}

\* BuildingTypeId::all(), in its order
BuildingTypeId_all == <<"CommandCenter", "OrbitalShipyard", "ResearchLab",
                        "FusionReactor", "GasExtractor", "MineralMine",
                        "BatteryArray", "GasTank", "MineralSilo">>

BuildingTypeId == {BuildingTypeId_all[i] : i \in 1..Len(BuildingTypeId_all)}

BaseIds == {"CommandCenter", "OrbitalShipyard", "ResearchLab"}
ProductorIds == {"FusionReactor", "GasExtractor", "MineralMine"}
StorageIds == {"BatteryArray", "GasTank", "MineralSilo"}

\* the resource BuildingType::new_zero binds to a producer or a storage
new_zero_resource(id) ==
    CASE id \in {"FusionReactor", "BatteryArray"} -> "Energy"
      [] id \in {"GasExtractor", "GasTank"} -> "Gas"
      [] id \in {"MineralMine", "MineralSilo"} -> "Minerals"

\* the storage slot of a resource (get_mut_resource_storage / get_resource_storage_ref)
storage_id(resource) ==
    CASE resource = "Energy" -> "BatteryArray"
      [] resource = "Minerals" -> "MineralSilo"
      [] resource = "Gas" -> "GasTank"

\* ---------------------------------------------------------------- results
Ok(detail) == [ok |-> TRUE, error |-> "", detail |-> detail]
Err(error, detail) == [ok |-> FALSE, error |-> error, detail |-> detail]

\* ---------------------------------------------------------------- BuildingConfig
BuildingConfig(max_level, energy, minerals, gas, production, storage) ==
    [max_level |-> max_level,
     upgrade_cost |-> [energy |-> energy, minerals |-> minerals, gas |-> gas],
     building_time |-> [time |-> [i \in 1..max_level |-> 1]],
     production |-> production,
     storage |-> storage]

ProductionInfo(resource, rate_per_level) ==
    Some([resource |-> resource, rate_per_level |-> rate_per_level])

StorageInfo(resource, capacity_per_level) ==
    Some([resource |-> resource, capacity_per_level |-> capacity_per_level])

get_rate_for_level(production, level) == get(production.rate_per_level, level)

get_capacity_for_level(storage, level) == get(storage.capacity_per_level, level)

\* the validation passing every empty array
validate_config_nonempty_only(config) ==
    LET max_lvl == config.max_level
        bad(array) == array # <<>> /\ Len(array) # max_lvl
    IN
    IF bad(config.upgrade_cost.energy) THEN "EnergyCostMismatch"
    ELSE IF bad(config.upgrade_cost.minerals) THEN "MineralsCostMismatch"
    ELSE IF bad(config.upgrade_cost.gas) THEN "GasCostMismatch"
    ELSE IF \E prod \in config.production : bad(prod.rate_per_level)
         THEN "ProductionRateMismatch"
    ELSE IF \E stor \in config.storage : bad(stor.capacity_per_level)
         THEN "StorageCapacityMismatch"
    ELSE IF Len(config.building_time.time) # max_lvl THEN "BuildingTimeMismatch"
    ELSE "Ok"

\* the validation loop of BuildingsConfig::load: "Ok" or the first mismatch of one entry
validate_config(config) ==
    LET max_lvl == config.max_level IN
    IF Len(config.upgrade_cost.energy) # max_lvl THEN "EnergyCostMismatch"
    ELSE IF Len(config.upgrade_cost.minerals) # max_lvl THEN "MineralsCostMismatch"
    ELSE IF Len(config.upgrade_cost.gas) # 0 /\ Len(config.upgrade_cost.gas) # max_lvl
         THEN "GasCostMismatch"
    ELSE IF \E prod \in config.production : Len(prod.rate_per_level) # max_lvl
         THEN "ProductionRateMismatch"
    ELSE IF \E stor \in config.storage : Len(stor.capacity_per_level) # max_lvl
         THEN "StorageCapacityMismatch"
    ELSE IF Len(config.building_time.time) # max_lvl THEN "BuildingTimeMismatch"
    ELSE "Ok"

\* BuildingsConfig::load succeeds when no entry of the table has a mismatch
BuildingsConfig_load_ok(buildings) ==
    \A name \in DOMAIN buildings : validate_config(buildings[name]) = "Ok"

\* ---------------------------------------------------------------- buildings
BuildingBase_new(variant, level) == [variant |-> variant, level |-> level]

Productor_new(variant, level, resource, building_config) ==
    LET production_rate ==
            IF building_config.production = None THEN 0
            ELSE LET rate == get_rate_for_level(Unwrap(building_config.production), level)
                 IN IF rate = None THEN 0 ELSE Unwrap(rate)
    IN [variant |-> variant, level |-> level, resource |-> resource,
        production_rate |-> production_rate]

Storage_new(variant, level, resource, building_config) ==
    LET capacity ==
            IF building_config.storage = None THEN 0
            ELSE LET cap == get_capacity_for_level(Unwrap(building_config.storage), level)
                 IN IF cap = None THEN 0 ELSE Unwrap(cap)
    IN [variant |-> variant, level |-> level, resource |-> resource,
        capacity |-> capacity, current_amount |-> 0]

BuildingType_new_zero(id, building_config) ==
    IF id \in ProductorIds THEN Productor_new(id, 0, new_zero_resource(id), building_config)
    ELSE IF id \in StorageIds THEN Storage_new(id, 0, new_zero_resource(id), building_config)
    ELSE BuildingBase_new(id, 0)

\* BuildingBase::upgrade with the guard written level > max_level
BuildingBase_upgrade_lax(building, building_config) ==
    LET max_level == building_config.max_level IN
    IF building.level > max_level
    THEN [result |-> Err("MaxLevelReached", <<building.level, max_level>>),
          building |-> building]
    ELSE [result |-> Ok(<<>>), building |-> [building EXCEPT !.level = @ + 1]]

\* BuildingBase::upgrade raising the level by 2
BuildingBase_upgrade_by_two(building, building_config) ==
    LET max_level == building_config.max_level IN
    IF building.level >= max_level
    THEN [result |-> Err("MaxLevelReached", <<building.level, max_level>>),
          building |-> building]
    ELSE [result |-> Ok(<<>>), building |-> [building EXCEPT !.level = @ + 2]]

\* BuildingBase::upgrade; the building and its result
BuildingBase_upgrade(building, building_config) ==
    LET max_level == building_config.max_level IN
    IF building.level >= max_level
    THEN [result |-> Err("MaxLevelReached", <<building.level, max_level>>),
          building |-> building]
    ELSE [result |-> Ok(<<>>), building |-> [building EXCEPT !.level = @ + 1]]

\* Productor::upgrade: the level is raised first, the rate is looked up after
Productor_upgrade(productor, building_config) ==
    LET base == BuildingBase_upgrade(productor, building_config) IN
    IF ~base.result.ok THEN base
    ELSE IF building_config.production = None
         THEN [result |-> Err("WrongBuildingConfiguration", <<>>), building |-> base.building]
    ELSE LET rate == get_rate_for_level(Unwrap(building_config.production),
                                        base.building.level)
         IN IF rate = None
            THEN [result |-> Err("WrongBuildingConfiguration", <<>>),
                  building |-> base.building]
            ELSE [result |-> Ok(<<>>),
                  building |-> [base.building EXCEPT !.production_rate = Unwrap(rate)]]

\* Storage::upgrade starting the upgraded storage empty
Storage_upgrade_emptying(storage, building_config) ==
    LET base == BuildingBase_upgrade(storage, building_config) IN
    IF ~base.result.ok THEN base
    ELSE IF building_config.storage = None
         THEN [result |-> Err("WrongBuildingConfiguration", <<>>), building |-> base.building]
    ELSE LET cap == get_capacity_for_level(Unwrap(building_config.storage),
                                           base.building.level)
         IN IF cap = None
            THEN [result |-> Err("WrongBuildingConfiguration", <<>>),
                  building |-> base.building]
            ELSE [result |-> Ok(<<>>),
                  building |-> [base.building EXCEPT !.capacity = Unwrap(cap),
                                                     !.current_amount = 0]]

\* Storage::upgrade: the level is raised first, the capacity is looked up after
Storage_upgrade(storage, building_config) ==
    LET base == BuildingBase_upgrade(storage, building_config) IN
    IF ~base.result.ok THEN base
    ELSE IF building_config.storage = None
         THEN [result |-> Err("WrongBuildingConfiguration", <<>>), building |-> base.building]
    ELSE LET cap == get_capacity_for_level(Unwrap(building_config.storage),
                                           base.building.level)
         IN IF cap = None
            THEN [result |-> Err("WrongBuildingConfiguration", <<>>),
                  building |-> base.building]
            ELSE [result |-> Ok(<<>>),
                  building |-> [base.building EXCEPT !.capacity = Unwrap(cap)]]

\* <BuildingType as Building>::upgrade
BuildingType_upgrade(building, building_config) ==
    IF building.variant \in ProductorIds THEN Productor_upgrade(building, building_config)
    ELSE IF building.variant \in StorageIds THEN Storage_upgrade(building, building_config)
    ELSE BuildingBase_upgrade(building, building_config)

\* Storage::add_resource; the storage and the amount actually added
add_resource(storage, amount_to_add) ==
    LET available_space == saturating_sub(storage.capacity, storage.current_amount)
        actual_added == Min(amount_to_add, available_space)
    IN [storage |-> [storage EXCEPT !.current_amount = @ + actual_added],
        actual_added |-> actual_added]

\* ---------------------------------------------------------------- Planet
\* Planet::new leaving the research lab out
Planet_new_without_lab(name, buildings) ==
    [name |-> name,
     buildings |-> [id \in BuildingTypeId \ {"ResearchLab"} |->
                        BuildingType_new_zero(id, buildings[id])]]

\* Planet::new with init_all_buildings_zero: one level-0 building per BuildingTypeId
Planet_new(name, buildings) ==
    [name |-> name,
     buildings |-> [id \in BuildingTypeId |-> BuildingType_new_zero(id, buildings[id])]]

RECURSIVE sum_production_rate(_, _, _)
sum_production_rate(planet, resource, ids) ==
    IF ids = {} THEN 0
    ELSE LET id == CHOOSE x \in ids : TRUE
             building == planet.buildings[id]
             rate == IF building.variant \in ProductorIds /\ building.resource = resource
                     THEN building.production_rate ELSE 0
         IN rate + sum_production_rate(planet, resource, ids \ {id})

\* get_production_rates adding every producer to every key
get_production_rates_unkeyed(planet) ==
    [resource \in Resource |->
        sum_production_rate(planet, "Energy", DOMAIN planet.buildings)
        + sum_production_rate(planet, "Minerals", DOMAIN planet.buildings)
        + sum_production_rate(planet, "Gas", DOMAIN planet.buildings)]

\* Planet::get_production_rates: the three keys, each the sum over its producers
get_production_rates(planet) ==
    [resource \in Resource |->
        sum_production_rate(planet, resource, DOMAIN planet.buildings)]

\* Planet::get_resource_storage_ref: the storage of a resource, or the error
get_resource_storage_ref(planet, resource) ==
    LET building_id == storage_id(resource) IN
    IF building_id \notin DOMAIN planet.buildings
    THEN [result |-> Err("BuildingNotBuilt", <<>>), storage |-> None]
    ELSE IF planet.buildings[building_id].variant \notin StorageIds
    THEN [result |-> Err("IncorrectBuildingType", <<>>), storage |-> None]
    ELSE [result |-> Ok(<<>>), storage |-> Some(planet.buildings[building_id])]

get_resource_amount(planet, resource) ==
    LET ref == get_resource_storage_ref(planet, resource) IN
    IF ref.result.ok THEN Unwrap(ref.storage).current_amount ELSE 0

get_resource_capacity(planet, resource) ==
    LET ref == get_resource_storage_ref(planet, resource) IN
    IF ref.result.ok THEN Unwrap(ref.storage).capacity ELSE 0

\* Planet::has_enough_resources with the comparison written > instead of >=
has_enough_resources_strict(planet, building, building_config) ==
    LET building_level == IF building = None THEN 1 ELSE Unwrap(building).level
        upgrade_cost == building_config.upgrade_cost
        energy_cost == get(upgrade_cost.energy, building_level)
        minerals_cost == get(upgrade_cost.minerals, building_level)
        gas_cost == get(upgrade_cost.gas, building_level)
    IN IF energy_cost = None THEN Err("EnergyCostMismatch", <<building_level>>)
       ELSE IF minerals_cost = None THEN Err("MineralsCostMismatch", <<building_level>>)
       ELSE IF gas_cost = None THEN Err("GasCostMismatch", <<building_level>>)
       ELSE IF /\ get_resource_amount(planet, "Energy") > Unwrap(energy_cost)
               /\ get_resource_amount(planet, "Minerals") > Unwrap(minerals_cost)
               /\ get_resource_amount(planet, "Gas") > Unwrap(gas_cost)
            THEN Ok(<<>>)
            ELSE Err("InsufficientResources", <<>>)

\* has_enough_resources reading a missing gas cost as a cost of 0
has_enough_resources_gas_optional(planet, building, building_config) ==
    LET building_level == IF building = None THEN 1 ELSE Unwrap(building).level
        upgrade_cost == building_config.upgrade_cost
        energy_cost == get(upgrade_cost.energy, building_level)
        minerals_cost == get(upgrade_cost.minerals, building_level)
        gas_cost == get(upgrade_cost.gas, building_level)
    IN IF energy_cost = None THEN Err("EnergyCostMismatch", <<building_level>>)
       ELSE IF minerals_cost = None THEN Err("MineralsCostMismatch", <<building_level>>)
       ELSE IF /\ get_resource_amount(planet, "Energy") >= Unwrap(energy_cost)
               /\ get_resource_amount(planet, "Minerals") >= Unwrap(minerals_cost)
               /\ get_resource_amount(planet, "Gas")
                    >= (IF gas_cost = None THEN 0 ELSE Unwrap(gas_cost))
            THEN Ok(<<>>)
            ELSE Err("InsufficientResources", <<>>)

\* Planet::has_enough_resources: the three cost look-ups, then the comparison
has_enough_resources(planet, building, building_config) ==
    LET building_level == IF building = None THEN 1 ELSE Unwrap(building).level
        upgrade_cost == building_config.upgrade_cost
        energy_cost == get(upgrade_cost.energy, building_level)
        minerals_cost == get(upgrade_cost.minerals, building_level)
        gas_cost == get(upgrade_cost.gas, building_level)
    IN IF energy_cost = None THEN Err("EnergyCostMismatch", <<building_level>>)
       ELSE IF minerals_cost = None THEN Err("MineralsCostMismatch", <<building_level>>)
       ELSE IF gas_cost = None THEN Err("GasCostMismatch", <<building_level>>)
       ELSE IF /\ get_resource_amount(planet, "Energy") >= Unwrap(energy_cost)
               /\ get_resource_amount(planet, "Minerals") >= Unwrap(minerals_cost)
               /\ get_resource_amount(planet, "Gas") >= Unwrap(gas_cost)
            THEN Ok(<<>>)
            ELSE Err("InsufficientResources", <<>>)

\* Planet::build raising the level itself, with neither the check nor upgrade()
Planet_build_unchecked(planet, building_id, building_config) ==
    IF building_id \in DOMAIN planet.buildings
    THEN [result |-> Ok(<<>>),
          planet |-> [planet EXCEPT !.buildings[building_id].level = @ + 1]]
    ELSE [result |-> Err("BuildingNotBuilt", <<>>), planet |-> planet]

\* Planet::build taking the cost of the upgrade out of the three storages
Planet_build_debiting(planet, building_id, building_config) ==
    IF building_id \in DOMAIN planet.buildings
    THEN LET building == planet.buildings[building_id]
             enough == has_enough_resources(planet, Some(building), building_config)
         IN IF ~enough.ok THEN [result |-> enough, planet |-> planet]
            ELSE LET up == BuildingType_upgrade(building, building_config)
                     cost == building_config.upgrade_cost
                     upgraded == [planet EXCEPT !.buildings[building_id] = up.building]
                 IN [result |-> up.result,
                     planet |-> [upgraded EXCEPT
                         !.buildings["BatteryArray"].current_amount =
                             saturating_sub(@, cost.energy[building.level + 1]),
                         !.buildings["MineralSilo"].current_amount =
                             saturating_sub(@, cost.minerals[building.level + 1]),
                         !.buildings["GasTank"].current_amount =
                             saturating_sub(@, cost.gas[building.level + 1])]]
    ELSE [result |-> Err("BuildingNotBuilt", <<>>), planet |-> planet]

\* Planet::build: the affordability check, then upgrade() on the slot in place
Planet_build(planet, building_id, building_config) ==
    IF building_id \in DOMAIN planet.buildings
    THEN LET enough == has_enough_resources(planet, Some(planet.buildings[building_id]),
                                            building_config)
         IN IF ~enough.ok THEN [result |-> enough, planet |-> planet]
            ELSE LET up == BuildingType_upgrade(planet.buildings[building_id],
                                                building_config)
                 IN [result |-> up.result,
                     planet |-> [planet EXCEPT !.buildings[building_id] = up.building]]
    ELSE [result |-> Err("BuildingNotBuilt", <<>>), planet |-> planet]

\* the orders in which a HashMap over the keys S can be iterated
Orders(S) ==
    {order \in [1..Cardinality(S) -> S] :
        \A i, j \in 1..Cardinality(S) : order[i] = order[j] => i = j}

\* get_mut_resource_storage with the Gas arm naming the extractor
get_mut_resource_storage_swapped(planet, resource) ==
    LET building_id == IF resource = "Gas" THEN "GasExtractor" ELSE storage_id(resource) IN
    IF building_id \notin DOMAIN planet.buildings
    THEN Err("BuildingNotBuilt", <<>>)
    ELSE IF planet.buildings[building_id].variant \notin StorageIds
    THEN Err("IncorrectBuildingType", <<>>)
    ELSE Ok(building_id)

\* Planet::get_mut_resource_storage: the slot of the storage of a resource;
\* BuildingNotBuilt without the slot, IncorrectBuildingType for another variant
get_mut_resource_storage(planet, resource) ==
    LET building_id == storage_id(resource) IN
    IF building_id \notin DOMAIN planet.buildings
    THEN Err("BuildingNotBuilt", <<>>)
    ELSE IF planet.buildings[building_id].variant \notin StorageIds
    THEN Err("IncorrectBuildingType", <<>>)
    ELSE Ok(building_id)

\* one iteration of the loop of generate_resources, the rate replacing the amount
store_production_overwrite(planet, resource, rate) ==
    IF rate > 0
    THEN LET storage_building == get_mut_resource_storage(planet, resource) IN
         IF storage_building.ok
         THEN [result |-> Ok(<<>>),
               planet |-> [planet EXCEPT
                   !.buildings[storage_building.detail].current_amount =
                       Min(rate, planet.buildings[storage_building.detail].capacity)]]
         ELSE [result |-> storage_building, planet |-> planet]
    ELSE [result |-> Ok(<<>>), planet |-> planet]

\* one iteration of the loop of generate_resources
store_production(planet, resource, rate) ==
    IF rate > 0
    THEN LET storage_building == get_mut_resource_storage(planet, resource) IN
         IF storage_building.ok
         THEN [result |-> Ok(<<>>),
               planet |-> [planet EXCEPT !.buildings[storage_building.detail] =
                                            add_resource(@, rate).storage]]
         ELSE [result |-> storage_building, planet |-> planet]
    ELSE [result |-> Ok(<<>>), planet |-> planet]

\* the loop of generate_resources over the remaining keys of the production map
RECURSIVE generate_resources_loop(_, _, _)
generate_resources_loop(planet, production, order) ==
    IF order = <<>>
    THEN [result |-> Ok(<<>>), planet |-> planet]
    ELSE LET stored == store_production(planet, Head(order), production[Head(order)]) IN
         IF stored.result.ok
         THEN generate_resources_loop(stored.planet, production, Tail(order))
         ELSE stored

\* generate_resources storing only the resource iterated first
generate_resources_first_only(planet, order) ==
    generate_resources_loop(planet, get_production_rates(planet), <<Head(order)>>)

\* Planet::generate_resources: every resource with a positive rate is stored,
\* in the order the production map is iterated; the first error ends the loop
generate_resources(planet, order) ==
    generate_resources_loop(planet, get_production_rates(planet), order)

\* ---------------------------------------------------------------- Player
Player_new(name, planet_name, buildings) ==
    [name |-> name,
     planets |-> [pn \in {planet_name} |-> Planet_new(planet_name, buildings)]]

\* the loop of process_turn_end over the remaining planets
RECURSIVE process_turn_end_loop(_, _, _)
process_turn_end_loop(player, planet_order, resource_orders) ==
    IF planet_order = <<>>
    THEN [result |-> Ok(<<>>), player |-> player]
    ELSE LET pn == Head(planet_order)
             generated == generate_resources(player.planets[pn], resource_orders[pn])
             after == [player EXCEPT !.planets[pn] = generated.planet]
         IN IF generated.result.ok
            THEN process_turn_end_loop(after, Tail(planet_order), resource_orders)
            ELSE [result |-> generated.result, player |-> after]

\* process_turn_end giving back the player as it was when a planet fails
process_turn_end_atomic(player, planet_order, resource_orders) ==
    LET ended == process_turn_end_loop(player, planet_order, resource_orders) IN
    IF ended.result.ok THEN ended ELSE [result |-> ended.result, player |-> player]

\* Player::process_turn_end: generate_resources on every planet, in the order
\* the planets map is iterated; the first error is returned
process_turn_end(player, planet_order, resource_orders) ==
    process_turn_end_loop(player, planet_order, resource_orders)

\* ---------------------------------------------------------------- commands
\* str::to_lowercase / eq_ignore_ascii_case on the tokens the inputs are made of;
\* a token that is not listed has no upper-case letter
LowerCaseOf == [s \in {"CommandCenter", "OrbitalShipyard", "ResearchLab",
                        "FusionReactor", "GasExtractor", "MineralMine",
                        "BatteryArray", "GasTank", "MineralSilo",
                        "BUILD", "MINERALMINE", "Planet1"} |->
    CASE s = "CommandCenter" -> "commandcenter"
      [] s = "OrbitalShipyard" -> "orbitalshipyard"
      [] s = "ResearchLab" -> "researchlab"
      [] s = "FusionReactor" -> "fusionreactor"
      [] s = "GasExtractor" -> "gasextractor"
      [] s = "MineralMine" -> "mineralmine"
      [] s = "BatteryArray" -> "batteryarray"
      [] s = "GasTank" -> "gastank"
      [] s = "MineralSilo" -> "mineralsilo"
      [] s = "BUILD" -> "build"
      [] s = "MINERALMINE" -> "mineralmine"
      [] s = "Planet1" -> "planet1"]

to_lowercase(s) == IF s \in DOMAIN LowerCaseOf THEN LowerCaseOf[s] ELSE s

eq_ignore_ascii_case_any(a, b) == TRUE
eq_ignore_ascii_case(a, b) == to_lowercase(a) = to_lowercase(b)

\* the command definitions of the command configuration file
CommandDefinition(name, aliases, expected_args) ==
    [name |-> name, aliases |-> aliases, expected_args |-> expected_args]

CommandsConfig ==
    <<CommandDefinition("help", <<"h">>, 0),
      CommandDefinition("build", <<"b">>, 2),
      CommandDefinition("endturn", <<"et">>, 0),
      CommandDefinition("quit", <<"q">>, 0)>>

\* how many times CommandRegistry::load pushes a definition under a key
RECURSIVE count_alias(_, _)
count_alias(aliases, key) ==
    IF aliases = <<>> THEN 0
    ELSE (IF Head(aliases) = key THEN 1 ELSE 0) + count_alias(Tail(aliases), key)

RECURSIVE definitions_for(_, _)
definitions_for(commands, key) ==
    IF commands = <<>> THEN <<>>
    ELSE LET cmd_def == Head(commands)
             pushes == (IF cmd_def.name = key THEN 1 ELSE 0)
                       + count_alias(cmd_def.aliases, key)
         IN [i \in 1..pushes |-> cmd_def] \o definitions_for(Tail(commands), key)

registry_keys(commands) ==
    UNION {{commands[i].name} \cup {commands[i].aliases[j] :
                                      j \in 1..Len(commands[i].aliases)} :
           i \in 1..Len(commands)}

\* CommandRegistry::load: name or alias -> the definitions pushed under it
CommandRegistry_load(commands) ==
    [key \in registry_keys(commands) |-> definitions_for(commands, key)]

\* CommandRegistry::get_command_definitions
get_command_definitions(registry, command_name) ==
    IF command_name \in DOMAIN registry THEN Some(registry[command_name]) ELSE None

\* Iterator::find on the definitions: the first with the provided argument count
RECURSIVE find_def(_, _)
find_def(defs, count) ==
    IF defs = <<>> THEN None
    ELSE IF Head(defs).expected_args = count THEN Some(Head(defs))
    ELSE find_def(Tail(defs), count)

Command(kind, building, planet) == [kind |-> kind, building |-> building, planet |-> planet]

ParseError(error) == [kind |-> "ParseError", building |-> error, planet |-> ""]

\* parse answering an unknown command name with the help command
parse_unknown_as_help(registry, parts) ==
    IF parts = <<>> THEN ParseError("NoCommandProvided")
    ELSE LET command_name == to_lowercase(parts[1])
             provided_args == Tail(parts)
             provided_arg_count == Len(provided_args)
             possible_defs == get_command_definitions(registry, command_name)
         IN IF possible_defs = None THEN Command("Help", "", "")
            ELSE IF find_def(Unwrap(possible_defs), provided_arg_count) = None
                 THEN ParseError("WrongArgCount")
            ELSE CASE command_name = "help" -> Command("Help", "", "")
                   [] command_name = "build" ->
                        IF Len(provided_args) < 2 THEN ParseError("NotEnoughArguments")
                        ELSE Command("Build", provided_args[1], provided_args[2])
                   [] command_name = "endturn" ->
                        IF provided_args = <<>> THEN Command("EndTurn", "", "")
                        ELSE ParseError("EndTurnArguments")
                   [] command_name = "quit" ->
                        IF provided_args = <<>> THEN Command("Quit", "", "")
                        ELSE ParseError("QuitArguments")
                   [] OTHER -> Command("UnknownInternal", "", "")

\* CommandExecution::parse on the whitespace-separated parts of the input
parse(registry, parts) ==
    IF parts = <<>> THEN ParseError("NoCommandProvided")
    ELSE LET command_name == to_lowercase(parts[1])
             provided_args == Tail(parts)
             provided_arg_count == Len(provided_args)
             possible_defs == get_command_definitions(registry, command_name)
         IN IF possible_defs = None THEN ParseError("UnknownCommand")
            ELSE IF find_def(Unwrap(possible_defs), provided_arg_count) = None
                 THEN ParseError("WrongArgCount")
            ELSE CASE command_name = "help" -> Command("Help", "", "")
                   [] command_name = "build" ->
                        IF Len(provided_args) < 2 THEN ParseError("NotEnoughArguments")
                        ELSE Command("Build", provided_args[1], provided_args[2])
                   [] command_name = "endturn" ->
                        IF provided_args = <<>> THEN Command("EndTurn", "", "")
                        ELSE ParseError("EndTurnArguments")
                   [] command_name = "quit" ->
                        IF provided_args = <<>> THEN Command("Quit", "", "")
                        ELSE ParseError("QuitArguments")
                   [] OTHER -> Command("UnknownInternal", "", "")

\* BuildingTypeId::all().iter().find(eq_ignore_ascii_case)
RECURSIVE find_building_id(_, _)
find_building_id(ids, building_name) ==
    IF ids = <<>> THEN None
    ELSE IF eq_ignore_ascii_case(Head(ids), building_name) THEN Some(Head(ids))
    ELSE find_building_id(Tail(ids), building_name)

\* ---------------------------------------------------------------- building configuration inputs
\* a building type that cannot be upgraded: max_level 0, every table empty
Unbuildable(production, storage) == BuildingConfig(0, <<>>, <<>>, <<>>, production, storage)

\* one mine and one silo with two levels, one command center with one level
ConfigStandard ==
    [id \in BuildingTypeId |->
        CASE id = "CommandCenter" -> BuildingConfig(1, <<0>>, <<1>>, <<0>>, None, None)
          [] id = "MineralMine" ->
                BuildingConfig(2, <<0, 0>>, <<0, 2>>, <<0, 0>>,
                               ProductionInfo("Minerals", <<1, 2>>), None)
          [] id = "MineralSilo" ->
                BuildingConfig(2, <<0, 0>>, <<1, 1>>, <<0, 0>>,
                               None, StorageInfo("Minerals", <<2, 3>>))
          [] id \in ProductorIds \ {"MineralMine"} ->
                Unbuildable(ProductionInfo(new_zero_resource(id), <<>>), None)
          [] id \in StorageIds \ {"MineralSilo"} ->
                Unbuildable(None, StorageInfo(new_zero_resource(id), <<>>))
          [] OTHER -> Unbuildable(None, None)]

\* the capacity table of the silo decreases with the level
ConfigShrinking ==
    [ConfigStandard EXCEPT
        !["MineralSilo"] = BuildingConfig(2, <<0, 0>>, <<1, 1>>, <<0, 0>>,
                                          None, StorageInfo("Minerals", <<3, 1>>))]

\* the gas cost tables are left empty, which the validation accepts
ConfigNoGasCost ==
    [id \in BuildingTypeId |->
        [ConfigStandard[id] EXCEPT !.upgrade_cost.gas = <<>>]]

\* every resource is produced, stored and needed
ConfigThreeResources ==
    [id \in BuildingTypeId |->
        CASE id = "CommandCenter" -> BuildingConfig(1, <<1>>, <<1>>, <<1>>, None, None)
          [] id \in ProductorIds ->
                BuildingConfig(1, <<0>>, <<0>>, <<0>>,
                               ProductionInfo(new_zero_resource(id), <<1>>), None)
          [] id \in StorageIds ->
                BuildingConfig(1, <<0>>, <<0>>, <<0>>,
                               None, StorageInfo(new_zero_resource(id), <<1>>))
          [] OTHER -> Unbuildable(None, None)]

\* a rate table shorter than max_level, which the validation rejects
ConfigBadLength ==
    [ConfigStandard EXCEPT
        !["MineralMine"] = BuildingConfig(2, <<0, 0>>, <<0, 2>>, <<0, 0>>,
                                          ProductionInfo("Minerals", <<1>>), None)]

BuildingsConfigInputs ==
    {ConfigStandard, ConfigShrinking, ConfigNoGasCost, ConfigThreeResources, ConfigBadLength}

\* ---------------------------------------------------------------- Turn
Turn_new(turn_number) == turn_number

get_turn_number(turn_number) == turn_number

next_turn_by_two(turn_number) == turn_number + 2
next_turn(turn_number) == turn_number + 1

\* Turn::reset_turn: the number goes back to 1. GameCore keeps its Turn private
\* and calls only get_turn_number and next_turn, so no command resets the turn
reset_turn(turn_number) == 1

\* ---------------------------------------------------------------- GameCore
command_registry == CommandRegistry_load(CommandsConfig)

NoCommand == [command |-> Command("None", "", ""), result |-> Ok(<<>>)]

NoUnit == [op |-> "none"]

NoApp == [pc |-> "none"]

\* the resources whose storage is empty, per planet of every player
ZeroAmounts(ps) ==
    UNION {UNION {{<<pl, pn, resource>> :
                      resource \in {r \in Resource :
                          get_resource_amount(ps[pl].planets[pn], r) = 0}}
                  : pn \in DOMAIN ps[pl].planets}
           : pl \in DOMAIN ps}

\* no execute_command call yet
NewHistory(ps) ==
    [input |-> None, end_turns |-> 0, streak |-> 0, zero_at_start |-> ZeroAmounts(ps),
     planet_order |-> <<>>]

\* the history after one more execute_command call: end_turns counts the
\* successful EndTurns, streak those since the last Build (or failed EndTurn),
\* zero_at_start the storages that were empty when the streak began;
\* planet_order is the order in which the EndTurn arm iterated the planets
record_call(input, command, result, players_after) ==
    LET ended == command.kind = "EndTurn" /\ result.ok
        reset == command.kind = "Build" \/ (command.kind = "EndTurn" /\ ~result.ok)
    IN [input |-> Some(input),
        end_turns |-> IF ended THEN history.end_turns + 1 ELSE history.end_turns,
        streak |-> IF ended THEN history.streak + 1
                   ELSE IF reset THEN 0 ELSE history.streak,
        zero_at_start |-> IF reset THEN ZeroAmounts(players_after)
                          ELSE history.zero_at_start,
        planet_order |-> <<>>]

\* GameCore::new: the loaded tables, "Player 1" on "Planet1", turn 1, running
GameCore_new(buildings) ==
    /\ BuildingsConfig_load_ok(buildings)
    /\ buildings_config = buildings
    /\ players = [n \in {"Player 1"} |-> Player_new("Player 1", "Planet1", buildings)]
    /\ current_player = "Player 1"
    /\ turn = Turn_new(1)
    /\ is_running = TRUE
    /\ last = NoCommand
    /\ history = NewHistory(players)

Init ==
    /\ \E buildings \in BuildingsConfigInputs : GameCore_new(buildings)
    /\ unit = NoUnit
    /\ app = NoApp

\* the inputs handed to execute_command, as their whitespace-separated parts
Inputs ==
    {<<"build", to_lowercase(id), "Planet1">> : id \in BuildingTypeId}
    \cup {<<"BUILD", "MineralMine", "Planet1">>,
          <<"b", "mineralmine", "Planet1">>,
          <<"build", "unknownthing", "Planet1">>,
          <<"build", "commandcenter", "planet1">>,
          <<"build", "unknownthing", "nowhere">>,
          <<"build", "mineralmine">>,
          <<"endturn">>, <<"help">>, <<"quit">>, <<"q">>,
          <<"frobnicate">>, <<>>}

\* execute_command, input rejected by CommandExecution::parse
parse_rejected(input) ==
    LET command == parse(command_registry, input)
        result == Err(command.building, <<>>)
    IN
    /\ command.kind = "ParseError"
    /\ last' = [command |-> command, result |-> result]
    /\ history' = record_call(input, command, result, players)
    /\ UNCHANGED <<buildings_config, players, current_player, turn, is_running>>

\* get_mut_planet taking names that differ in letter case as equal
get_mut_planet_ignoring_case(player, planet_name) ==
    {pn \in DOMAIN player.planets : to_lowercase(pn) = to_lowercase(planet_name)}

\* Player::get_planet / get_mut_planet: the planet stored under exactly this
\* name, as the key it is stored under
get_mut_planet(player, planet_name) ==
    IF planet_name \in DOMAIN player.planets THEN Some(planet_name) ELSE None

\* the Build arm resolving the building name before the planet
build_outcome_building_first(command) ==
    IF current_player \notin DOMAIN players
    THEN [result |-> Err("CurrentPlayerNotFound", <<>>), players |-> players]
    ELSE LET player == players[current_player]
             planet_key == get_mut_planet(player, command.planet)
             target_building_id == find_building_id(BuildingTypeId_all, command.building)
         IN
    IF target_building_id = None
    THEN [result |-> Err("BuildingNotRecognized", <<>>), players |-> players]
    ELSE IF planet_key = None
    THEN [result |-> Err("PlanetNotFound", <<>>), players |-> players]
    ELSE IF Unwrap(target_building_id) \notin DOMAIN buildings_config
    THEN [result |-> Err("BuildingNotInConfig", <<>>), players |-> players]
    ELSE LET built == Planet_build(player.planets[Unwrap(planet_key)],
                                   Unwrap(target_building_id),
                                   buildings_config[Unwrap(target_building_id)])
         IN [result |-> built.result,
             players |-> [players EXCEPT
                            ![current_player].planets[Unwrap(planet_key)] = built.planet]]

\* the Build arm: its result and the players after it
build_outcome(command) ==
    IF current_player \notin DOMAIN players
    THEN [result |-> Err("CurrentPlayerNotFound", <<>>), players |-> players]
    ELSE LET player == players[current_player]
             planet_key == get_mut_planet(player, command.planet)
         IN
    IF planet_key = None
    THEN [result |-> Err("PlanetNotFound", <<>>), players |-> players]
    ELSE LET planet == player.planets[Unwrap(planet_key)]
             target_building_id == find_building_id(BuildingTypeId_all, command.building)
         IN
    IF target_building_id = None
    THEN [result |-> Err("BuildingNotRecognized", <<>>), players |-> players]
    ELSE IF Unwrap(target_building_id) \notin DOMAIN buildings_config
    THEN [result |-> Err("BuildingNotInConfig", <<>>), players |-> players]
    ELSE LET built == Planet_build(planet, Unwrap(target_building_id),
                                   buildings_config[Unwrap(target_building_id)])
         IN [result |-> built.result,
             players |-> [players EXCEPT
                            ![current_player].planets[Unwrap(planet_key)] = built.planet]]

\* the Build arm of execute_command
Build_arm(input) ==
    LET command == parse(command_registry, input) IN
    /\ command.kind = "Build"
    /\ LET outcome == build_outcome(command) IN
        /\ players' = outcome.players
        /\ last' = [command |-> command, result |-> outcome.result]
        /\ history' = record_call(input, command, outcome.result, outcome.players)
    /\ UNCHANGED <<buildings_config, current_player, turn, is_running>>

\* the EndTurn arm handing the turn to another stored player
EndTurn_arm_rotating(input) ==
    LET command == parse(command_registry, input) IN
    /\ command.kind = "EndTurn"
    /\ turn < MaxTurn
    /\ current_player \in DOMAIN players
    /\ \E planet_order \in Orders(DOMAIN players[current_player].planets) :
       \E resource_orders \in
               [DOMAIN players[current_player].planets -> Orders(Resource)] :
       LET ended == process_turn_end(players[current_player],
                                     planet_order, resource_orders)
           players_after == [players EXCEPT ![current_player] = ended.player]
           result == IF ended.result.ok
                     THEN Ok(<<get_turn_number(turn)>>)
                     ELSE ended.result
       IN
       /\ players' = players_after
       /\ turn' = IF ended.result.ok THEN next_turn(turn) ELSE turn
       /\ last' = [command |-> command, result |-> result]
       /\ history' = record_call(input, command, result, players_after)
    /\ current_player' = IF DOMAIN players \ {current_player} = {} THEN current_player
                          ELSE CHOOSE other \in DOMAIN players \ {current_player} : TRUE
    /\ UNCHANGED <<buildings_config, is_running>>

\* the EndTurn arm of execute_command: process_turn_end, then next_turn; the
\* message carries the turn number read before next_turn
EndTurn_arm(input) ==
    LET command == parse(command_registry, input) IN
    /\ command.kind = "EndTurn"
    /\ turn < MaxTurn
    /\ IF current_player \notin DOMAIN players
       THEN LET result == Err("CurrentPlayerNotFound", <<>>) IN
            /\ last' = [command |-> command, result |-> result]
            /\ history' = record_call(input, command, result, players)
            /\ UNCHANGED <<players, turn>>
       ELSE \E planet_order \in Orders(DOMAIN players[current_player].planets) :
            \E resource_orders \in
                    [DOMAIN players[current_player].planets -> Orders(Resource)] :
            LET ended == process_turn_end(players[current_player],
                                          planet_order, resource_orders)
                players_after == [players EXCEPT ![current_player] = ended.player]
                result == IF ended.result.ok
                          THEN Ok(<<get_turn_number(turn)>>)
                          ELSE ended.result
            IN
            /\ players' = players_after
            /\ turn' = IF ended.result.ok THEN next_turn(turn) ELSE turn
            /\ last' = [command |-> command, result |-> result]
            /\ history' = [record_call(input, command, result, players_after)
                              EXCEPT !.planet_order = planet_order]
    /\ UNCHANGED <<buildings_config, current_player, is_running>>

\* the Quit arm of execute_command
Quit_arm(input) ==
    LET command == parse(command_registry, input) IN
    /\ command.kind = "Quit"
    /\ is_running' = FALSE
    /\ last' = [command |-> command, result |-> Ok(<<>>)]
    /\ history' = record_call(input, command, Ok(<<>>), players)
    /\ UNCHANGED <<buildings_config, players, current_player, turn>>

\* the Help arm setting the running flag
Help_arm_restarting(input) ==
    LET command == parse(command_registry, input) IN
    /\ command.kind = "Help"
    /\ is_running' = TRUE
    /\ last' = [command |-> command, result |-> Ok(<<>>)]
    /\ history' = record_call(input, command, Ok(<<>>), players)
    /\ UNCHANGED <<buildings_config, players, current_player, turn>>

\* the Help arm of execute_command
Help_arm(input) ==
    LET command == parse(command_registry, input) IN
    /\ command.kind = "Help"
    /\ last' = [command |-> command, result |-> Ok(<<>>)]
    /\ history' = record_call(input, command, Ok(<<>>), players)
    /\ UNCHANGED <<buildings_config, players, current_player, turn, is_running>>

\* the UnknownInternal arm of execute_command
UnknownInternal_arm(input) ==
    LET command == parse(command_registry, input)
        result == Err("UnknownInternal", <<>>)
    IN
    /\ command.kind = "UnknownInternal"
    /\ last' = [command |-> command, result |-> result]
    /\ history' = record_call(input, command, result, players)
    /\ UNCHANGED <<buildings_config, players, current_player, turn, is_running>>

\* GameCore::execute_command on the parts of its input
execute_command(input) ==
    \/ parse_rejected(input)
    \/ Build_arm(input)
    \/ EndTurn_arm(input)
    \/ Quit_arm(input)
    \/ Help_arm(input)
    \/ UnknownInternal_arm(input)

\* execute_command called directly, one action per outcome of the match
execute_command_rejected(input) == parse_rejected(input) /\ UNCHANGED <<unit, app>>

execute_command_Build(input) == Build_arm(input) /\ UNCHANGED <<unit, app>>

execute_command_EndTurn(input) == EndTurn_arm(input) /\ UNCHANGED <<unit, app>>

execute_command_Quit(input) == Quit_arm(input) /\ UNCHANGED <<unit, app>>

execute_command_Help(input) == Help_arm(input) /\ UNCHANGED <<unit, app>>

execute_command_UnknownInternal(input) ==
    UnknownInternal_arm(input) /\ UNCHANGED <<unit, app>>

Next ==
    \/ \E input \in Inputs : execute_command_rejected(input)
    \/ \E input \in Inputs : execute_command_Build(input)
    \/ \E input \in Inputs : execute_command_EndTurn(input)
    \/ \E input \in Inputs : execute_command_Quit(input)
    \/ \E input \in Inputs : execute_command_Help(input)
    \/ \E input \in Inputs : execute_command_UnknownInternal(input)

Spec == Init /\ [][Next]_vars

\* ---------------------------------------------------------------- App
\* the fields of GameCore, untouched by the steps of the loop that call nothing
game == <<buildings_config, players, current_player, turn, is_running, last, history>>

MAX_LOGS == 100

LogMessage_info(text) == [level |-> "Info", text |-> text]

LogMessage_error(text) == [level |-> "Error", text |-> text]

LogMessage_success(text) == [level |-> "Success", text |-> text]

\* add_log making room by dropping the newest message held
add_log_evicting_newest(logs, message) ==
    Append(IF Len(logs) >= MAX_LOGS THEN SubSeq(logs, 1, Len(logs) - 1) ELSE logs,
           message)

\* App::add_log: the oldest message leaves once MAX_LOGS are held
add_log(logs, message) ==
    Append(IF Len(logs) >= MAX_LOGS THEN Tail(logs) ELSE logs, message)

\* the message logged for the result of execute_command
log_of_result(command, result) ==
    IF result.ok
    THEN LogMessage_success(<<command.kind, result.detail>>)
    ELSE LogMessage_error(<<result.error>>)

\* str::trim on a string held as its sequence of characters
RECURSIVE trim_start(_)
trim_start(chars) ==
    IF chars # <<>> /\ Head(chars) = " " THEN trim_start(Tail(chars)) ELSE chars

RECURSIVE trim_end(_)
trim_end(chars) ==
    IF chars # <<>> /\ chars[Len(chars)] = " "
    THEN trim_end(SubSeq(chars, 1, Len(chars) - 1))
    ELSE chars

trim(chars) == trim_end(trim_start(chars))

\* str::split_whitespace: the maximal runs of characters other than the blank
RECURSIVE split_whitespace_loop(_, _, _)
split_whitespace_loop(chars, word, parts) ==
    LET closed == IF word = "" THEN parts ELSE Append(parts, word) IN
    IF chars = <<>> THEN closed
    ELSE IF Head(chars) = " " THEN split_whitespace_loop(Tail(chars), "", closed)
    ELSE split_whitespace_loop(Tail(chars), word \o Head(chars), parts)

split_whitespace(chars) == split_whitespace_loop(chars, "", <<>>)

\* the lines typed at the command input, character by character
TypedLines ==
    {<<"q", "u", "i", "t">>,
     <<"h", "e", "l", "p">>,
     <<"e", "n", "d", "t", "u", "r", "n">>,
     <<" ", "q", " ">>,
     <<" ", " ">>}

TypedChars == UNION {{line[i] : i \in 1..Len(line)} : line \in TypedLines}

IsTypedPrefix(chars) ==
    \E line \in TypedLines :
        Len(chars) <= Len(line) /\ chars = SubSeq(line, 1, Len(chars))

\* App::new around an already constructed GameCore; calls counts the
\* execute_command calls the loop has made
App_new ==
    [input_buffer |-> <<>>, exit |-> FALSE, show_cursor |-> TRUE,
     focused_pane |-> "CommandInput", current_planet_idx |-> 0, logs |-> <<>>,
     pc |-> "loop", calls |-> 0]

InitApp ==
    /\ \E buildings \in BuildingsConfigInputs : GameCore_new(buildings)
    /\ unit = NoUnit
    /\ app = App_new

\* get_planet_count answering with one planet for a player that is gone
get_planet_count_of_present ==
    IF current_player \in DOMAIN players
    THEN Cardinality(DOMAIN players[current_player].planets)
    ELSE Cardinality({"Planet1"})

get_planet_count ==
    IF current_player \in DOMAIN players
    THEN Cardinality(DOMAIN players[current_player].planets)
    ELSE 0

\* the head of an iteration of App::run: the while condition, then the
\* is_running test that breaks out of the loop
loop_test_ignoring_is_running(exit, running) ==
    IF exit THEN "leave" ELSE "iterate"
loop_test(exit, running) ==
    IF exit THEN "leave" ELSE IF ~running THEN "break" ELSE "iterate"

\* App::run from the while condition to event::poll
run_loop_head(blink) ==
    /\ app.pc = "loop"
    /\ LET test == loop_test(app.exit, is_running) IN
       app' = IF test = "leave" THEN [app EXCEPT !.pc = "done"]
              ELSE IF test = "break" THEN [app EXCEPT !.exit = TRUE, !.pc = "done"]
              ELSE IF get_planet_count = 0 THEN [app EXCEPT !.pc = "panicked"]
              ELSE [app EXCEPT
                      !.show_cursor = IF blink THEN ~@ ELSE @,
                      !.current_planet_idx = IF @ >= get_planet_count THEN 0 ELSE @,
                      !.pc = "event"]
    /\ UNCHANGED <<game, unit>>

\* event::poll timed out, or the event is no key press
run_no_key_press ==
    /\ app.pc = "event"
    /\ app' = [app EXCEPT !.pc = "loop"]
    /\ UNCHANGED <<game, unit>>

handle_key_event_Up ==
    /\ app.pc = "event"
    /\ app' = [app EXCEPT
                 !.focused_pane = IF @ = "CommandInput" THEN "Status" ELSE @,
                 !.pc = "loop"]
    /\ UNCHANGED <<game, unit>>

handle_key_event_Down ==
    /\ app.pc = "event"
    /\ app' = [app EXCEPT
                 !.focused_pane = IF @ = "Status" THEN "CommandInput" ELSE @,
                 !.pc = "loop"]
    /\ UNCHANGED <<game, unit>>

handle_key_event_Left ==
    /\ app.pc = "event"
    /\ app' = IF app.focused_pane # "Status" THEN [app EXCEPT !.pc = "loop"]
              ELSE IF get_planet_count = 0 THEN [app EXCEPT !.pc = "panicked"]
              ELSE [app EXCEPT
                      !.current_planet_idx = (@ + 1) % get_planet_count,
                      !.pc = "loop"]
    /\ UNCHANGED <<game, unit>>

handle_key_event_Right ==
    /\ app.pc = "event"
    /\ app' = IF app.focused_pane # "Status" THEN [app EXCEPT !.pc = "loop"]
              ELSE IF get_planet_count = 0 THEN [app EXCEPT !.pc = "panicked"]
              ELSE [app EXCEPT
                      !.current_planet_idx =
                          (@ + get_planet_count - 1) % get_planet_count,
                      !.pc = "loop"]
    /\ UNCHANGED <<game, unit>>

handle_key_event_Tab ==
    /\ app.pc = "event"
    /\ app' = [app EXCEPT
                 !.focused_pane = IF @ = "CommandInput" THEN "Status" ELSE "CommandInput",
                 !.pc = "loop"]
    /\ UNCHANGED <<game, unit>>

handle_key_event_Esc ==
    /\ app.pc = "event"
    /\ app' = [app EXCEPT
                 !.logs = add_log(@, LogMessage_info(<<"Quit requested.">>)),
                 !.exit = TRUE,
                 !.pc = "loop"]
    /\ UNCHANGED <<game, unit>>

\* Enter leaving the submitted line in the buffer
handle_key_event_Enter_keeping_buffer ==
    /\ app.pc = "event"
    /\ IF app.focused_pane = "CommandInput"
       THEN LET input == trim(app.input_buffer) IN
            IF input # <<>>
            THEN /\ app.calls < MaxCommands
                 /\ execute_command(split_whitespace(trim(input)))
                 /\ app' = [app EXCEPT
                              !.logs = add_log(@, log_of_result(last'.command,
                                                                last'.result)),
                              !.calls = @ + 1,
                              !.pc = "loop"]
            ELSE /\ app' = [app EXCEPT !.input_buffer = <<>>, !.pc = "loop"]
                 /\ UNCHANGED game
       ELSE /\ app' = [app EXCEPT !.pc = "loop"]
            /\ UNCHANGED game
    /\ UNCHANGED unit

\* Enter: the trimmed buffer, when not empty, goes to execute_command and its
\* result to the log; the buffer is cleared either way
handle_key_event_Enter ==
    /\ app.pc = "event"
    /\ IF app.focused_pane = "CommandInput"
       THEN LET input == trim(app.input_buffer) IN
            IF input # <<>>
            THEN /\ app.calls < MaxCommands
                 /\ execute_command(split_whitespace(trim(input)))
                 /\ app' = [app EXCEPT
                              !.logs = add_log(@, log_of_result(last'.command,
                                                                last'.result)),
                              !.input_buffer = <<>>,
                              !.calls = @ + 1,
                              !.pc = "loop"]
            ELSE /\ app' = [app EXCEPT !.input_buffer = <<>>, !.pc = "loop"]
                 /\ UNCHANGED game
       ELSE /\ app' = [app EXCEPT !.pc = "loop"]
            /\ UNCHANGED game
    /\ UNCHANGED unit

handle_key_event_Char(c) ==
    /\ app.pc = "event"
    /\ IF app.focused_pane = "CommandInput"
       THEN /\ IsTypedPrefix(Append(app.input_buffer, c))
            /\ app' = [app EXCEPT !.input_buffer = Append(@, c), !.pc = "loop"]
       ELSE app' = [app EXCEPT !.pc = "loop"]
    /\ UNCHANGED <<game, unit>>

handle_key_event_Backspace ==
    /\ app.pc = "event"
    /\ app' = IF app.focused_pane = "CommandInput" /\ app.input_buffer # <<>>
              THEN [app EXCEPT
                      !.input_buffer = SubSeq(@, 1, Len(@) - 1),
                      !.pc = "loop"]
              ELSE [app EXCEPT !.pc = "loop"]
    /\ UNCHANGED <<game, unit>>

NextApp ==
    \/ \E blink \in BOOLEAN : run_loop_head(blink)
    \/ run_no_key_press
    \/ handle_key_event_Up
    \/ handle_key_event_Down
    \/ handle_key_event_Left
    \/ handle_key_event_Right
    \/ handle_key_event_Tab
    \/ handle_key_event_Esc
    \/ handle_key_event_Enter
    \/ \E c \in TypedChars : handle_key_event_Char(c)
    \/ handle_key_event_Backspace

SpecApp == InitApp /\ [][NextApp]_vars

\* ---------------------------------------------------------------- one building, driven directly
\* the validated configurations of one building: every table has length max_level
UnitTables(max_level) == [1..max_level -> 0..MaxAmount]

UnitConfigs(variant) ==
    UNION {
        LET zero == [i \in 1..max_level |-> 0] IN
        IF variant \in ProductorIds
        THEN {BuildingConfig(max_level, zero, zero, zero, production, None) :
                production \in {None} \cup
                    {ProductionInfo(new_zero_resource(variant), t) : t \in UnitTables(max_level)}}
        ELSE IF variant \in StorageIds
        THEN {BuildingConfig(max_level, zero, zero, zero, None, storage) :
                storage \in {None} \cup
                    {StorageInfo(new_zero_resource(variant), t) : t \in UnitTables(max_level)}}
        ELSE {BuildingConfig(max_level, zero, zero, zero, None, None)}
      : max_level \in 0..MaxUnitLevel}

\* BuildingBase::new / Productor::new / Storage::new at a given level
Building_new(variant, level, building_config) ==
    IF variant \in ProductorIds
    THEN Productor_new(variant, level, new_zero_resource(variant), building_config)
    ELSE IF variant \in StorageIds
    THEN Storage_new(variant, level, new_zero_resource(variant), building_config)
    ELSE BuildingBase_new(variant, level)

UnitVariants == {"CommandCenter", "MineralMine", "MineralSilo"}

InitUnit ==
    /\ GameCore_new(ConfigStandard)
    /\ app = NoApp
    /\ \E variant \in UnitVariants :
        \E building_config \in UnitConfigs(variant) :
            \E level \in 0..building_config.max_level :
                /\ validate_config(building_config) = "Ok"
                /\ unit = [op |-> "new",
                           config |-> building_config,
                           building |-> Building_new(variant, level, building_config),
                           before |-> Building_new(variant, level, building_config),
                           amount_to_add |-> 0,
                           actual_added |-> 0,
                           result |-> Ok(<<>>)]

\* Building::upgrade called on the building
unit_upgrade ==
    LET up == BuildingType_upgrade(unit.building, unit.config) IN
    /\ unit' = [unit EXCEPT !.op = "upgrade",
                            !.building = up.building,
                            !.before = unit.building,
                            !.amount_to_add = 0,
                            !.actual_added = 0,
                            !.result = up.result]
    /\ UNCHANGED <<buildings_config, players, current_player, turn, is_running, last,
                   history, app>>

\* Storage::add_resource called on the building
unit_add_resource(amount_to_add) ==
    /\ unit.building.variant \in StorageIds
    /\ LET added == add_resource(unit.building, amount_to_add) IN
        unit' = [unit EXCEPT !.op = "add_resource",
                             !.building = added.storage,
                             !.before = unit.building,
                             !.amount_to_add = amount_to_add,
                             !.actual_added = added.actual_added,
                             !.result = Ok(<<>>)]
    /\ UNCHANGED <<buildings_config, players, current_player, turn, is_running, last,
                   history, app>>

NextUnit ==
    \/ unit_upgrade
    \/ \E amount_to_add \in 0..MaxAmount : unit_add_resource(amount_to_add)

SpecUnit == InitUnit /\ [][NextUnit]_vars

\* ---------------------------------------------------------------- EndTurn on planets that fail
\* The fields of Planet admit a buildings map without the gas tank, or with
\* another variant stored under its key; GameCore::new builds no such planet.
\* They are drawn here so that generate_resources has a planet to fail on.
TankKinds == {"complete", "absent", "other variant"}

PlanetWithTank(planet, kind) ==
    CASE kind = "complete" -> planet
      [] kind = "absent" ->
            [planet EXCEPT !.buildings =
                [id \in DOMAIN planet.buildings \ {"GasTank"} |-> planet.buildings[id]]]
      [] kind = "other variant" ->
            [planet EXCEPT !.buildings["GasTank"] = planet.buildings["GasExtractor"]]

TurnEndPlanets == {"Planet1", "Planet2"}

\* one player with two planets, each with its tank complete, absent or of
\* another variant; everything else as GameCore::new leaves it
InitTurnEnd ==
    /\ \E buildings \in BuildingsConfigInputs :
       \E kinds \in [TurnEndPlanets -> TankKinds] :
        /\ BuildingsConfig_load_ok(buildings)
        /\ buildings_config = buildings
        /\ players = [n \in {"Player 1"} |->
                [name |-> "Player 1",
                 planets |-> [pn \in TurnEndPlanets |->
                                PlanetWithTank(Planet_new(pn, buildings), kinds[pn])]]]
    /\ current_player = "Player 1"
    /\ turn = Turn_new(1)
    /\ is_running = TRUE
    /\ last = NoCommand
    /\ history = NewHistory(players)
    /\ unit = NoUnit
    /\ app = NoApp

NextTurnEnd ==
    \E input \in {<<"endturn">>} : execute_command_EndTurn(input)

SpecTurnEnd == InitTurnEnd /\ [][NextTurnEnd]_vars

\* ---------------------------------------------------------------- loading and construction
\* an array of the given length
Ones(length) == [i \in 1..length |-> 1]

\* the entries a configuration file can hold for one building: max_level and
\* the length of every array chosen freely, production and storage optional
LoadConfigs ==
    LET lengths == 0..(MaxUnitLevel + 1) IN
    {[BuildingConfig(max_level, Ones(e), Ones(m), Ones(g), production, storage)
        EXCEPT !.building_time.time = Ones(t)] :
        max_level \in 0..MaxUnitLevel,
        e \in lengths, m \in lengths, g \in lengths, t \in lengths,
        production \in {None} \cup {ProductionInfo("Minerals", Ones(r)) : r \in lengths},
        storage \in {None} \cup {StorageInfo("Minerals", Ones(c)) : c \in lengths}}

\* the tables a configuration file can hold: the standard table with the
\* entry of the mine replaced, or with the entry of one building left out
LoadTables ==
    {[ConfigStandard EXCEPT !["MineralMine"] = config] : config \in LoadConfigs}
    \cup {[id \in BuildingTypeId \ {absent} |-> ConfigStandard[id]] :
            absent \in BuildingTypeId}

\* before construction: the parsed file, and no GameCore yet
InitLoad ==
    /\ unit \in {[op |-> "file", table |-> table, result |-> Ok(<<>>)] :
                    table \in LoadTables}
    /\ buildings_config = <<>>
    /\ players = <<>>
    /\ current_player = ""
    /\ turn = 0
    /\ is_running = FALSE
    /\ last = NoCommand
    /\ history = NewHistory(<<>>)
    /\ app = NoApp

\* BuildingsConfig::load: Ok, or the mismatch of the entry the loop meets first
BuildingsConfig_load(table) ==
    IF BuildingsConfig_load_ok(table) THEN {Ok(<<>>)}
    ELSE {Err(validate_config(table[name]), <<>>) :
            name \in {n \in DOMAIN table : validate_config(table[n]) # "Ok"}}

\* Planet::new: init_all_buildings_zero fails on the first building type
\* without an entry in the table
Planet_new_result(table) ==
    IF \E id \in BuildingTypeId : id \notin DOMAIN table
    THEN Err("BuildingsConfigError", <<>>)
    ELSE Ok(<<>>)

\* GameCore::new: the load error is returned; Player::new unwraps the result
\* of Planet::new, so its error ends the program in a panic
GameCore_new_result(table) ==
    {IF ~loaded.ok THEN loaded
     ELSE IF ~Planet_new_result(table).ok THEN Err("panic", <<>>)
     ELSE Ok(<<>>) : loaded \in BuildingsConfig_load(table)}

\* BuildingsConfig::load called on the file
BuildingsConfig_load_call ==
    /\ unit.op = "file"
    /\ \E result \in BuildingsConfig_load(unit.table) :
        unit' = [unit EXCEPT !.op = "load", !.result = result]
    /\ UNCHANGED game
    /\ UNCHANGED app

\* GameCore::new called on the file
GameCore_new_call ==
    /\ unit.op = "file"
    /\ \E result \in GameCore_new_result(unit.table) :
        /\ unit' = [unit EXCEPT !.op = "new", !.result = result]
        /\ IF result.ok
           THEN /\ buildings_config' = unit.table
                /\ players' = [n \in {"Player 1"} |->
                                Player_new("Player 1", "Planet1", unit.table)]
                /\ current_player' = "Player 1"
                /\ turn' = Turn_new(1)
                /\ is_running' = TRUE
                /\ last' = NoCommand
                /\ history' = NewHistory(players')
           ELSE UNCHANGED game
    /\ UNCHANGED app

NextLoad ==
    \/ BuildingsConfig_load_call
    \/ GameCore_new_call

SpecLoad == InitLoad /\ [][NextLoad]_vars

\* ---------------------------------------------------------------- GameCore through its whole interface
MaxPlanetCount == 2

\* GameCore::get_current_player_planet_names: the keys of the planets map in
\* one of the orders the map can be iterated in, or the empty vector
get_current_player_planet_names ==
    IF current_player \in DOMAIN players
    THEN Orders(DOMAIN players[current_player].planets)
    ELSE {<<>>}

\* get_status pairing each resource with (capacity, current_amount)
get_status_capacity_first(planet, total_planet_count) ==
    [planet_name |-> planet.name,
     buildings |-> {<<planet.buildings[id].variant, planet.buildings[id].level>> :
                        id \in DOMAIN planet.buildings},
     production |-> get_production_rates(planet),
     storage |-> [resource \in Resource |->
                    <<get_resource_capacity(planet, resource),
                      get_resource_amount(planet, resource)>>],
     planet_count |-> total_planet_count]

\* Planet::get_status: the snapshot of a planet; the building list, collected
\* from the values of a HashMap, is held as the set of its (name, level) pairs
get_status(planet, total_planet_count) ==
    [planet_name |-> planet.name,
     buildings |-> {<<planet.buildings[id].variant, planet.buildings[id].level>> :
                        id \in DOMAIN planet.buildings},
     production |-> get_production_rates(planet),
     storage |-> [resource \in Resource |->
                    <<get_resource_amount(planet, resource),
                      get_resource_capacity(planet, resource)>>],
     planet_count |-> total_planet_count]

\* GameCore::get_current_player_planet_status
get_current_player_planet_status(planet_name) ==
    IF current_player \notin DOMAIN players THEN None
    ELSE LET player == players[current_player] IN
         IF planet_name \notin DOMAIN player.planets THEN None
         ELSE Some(get_status(player.planets[planet_name],
                              Cardinality(DOMAIN player.planets)))

\* GameCore::remove_player
remove_player(player_name) ==
    /\ players' = [pl \in DOMAIN players \ {player_name} |-> players[pl]]
    /\ unit' = NoUnit
    /\ UNCHANGED <<buildings_config, current_player, turn, is_running, last, history, app>>

\* GameCore::execute_command; what an accessor returned before it is forgotten
call_execute_command(input) ==
    /\ execute_command(input)
    /\ unit' = NoUnit
    /\ UNCHANGED app

call_get_planet_count ==
    /\ unit' = [op |-> "get_planet_count", value |-> get_planet_count]
    /\ UNCHANGED <<game, app>>

call_get_current_player_planet_names ==
    /\ \E names \in get_current_player_planet_names :
        unit' = [op |-> "get_current_player_planet_names", value |-> names]
    /\ UNCHANGED <<game, app>>

call_get_current_player_planet_status(planet_name) ==
    /\ unit' = [op |-> "get_current_player_planet_status", planet_name |-> planet_name,
                value |-> get_current_player_planet_status(planet_name)]
    /\ UNCHANGED <<game, app>>

\* Planet::get_status called on a planet of the current player
call_get_status(planet_name, total_planet_count) ==
    /\ current_player \in DOMAIN players
    /\ planet_name \in DOMAIN players[current_player].planets
    /\ unit' = [op |-> "get_status", planet_name |-> planet_name,
                total_planet_count |-> total_planet_count,
                value |-> get_status(players[current_player].planets[planet_name],
                                     total_planet_count)]
    /\ UNCHANGED <<game, app>>

\* the commands given between the calls of the accessors
CoreInputs ==
    {<<"build", "mineralmine", "Planet1">>,
     <<"build", "mineralsilo", "Planet1">>,
     <<"build", "gasextractor", "nowhere">>,
     <<"endturn">>, <<"help">>}

NextCore ==
    \/ \E input \in CoreInputs : call_execute_command(input)
    \/ \E player_name \in {"Player 1", "Player 2"} : remove_player(player_name)
    \/ call_get_planet_count
    \/ call_get_current_player_planet_names
    \/ \E planet_name \in {"Planet1", "planet1"} :
            call_get_current_player_planet_status(planet_name)
    \/ \E planet_name \in {"Planet1"} : \E total_planet_count \in 0..MaxPlanetCount :
            call_get_status(planet_name, total_planet_count)

\* GameCore::new, or the same GameCore with a second player stored: the
\* players map admits several players, GameCore::new stores one
InitCore ==
    /\ \E buildings \in BuildingsConfigInputs :
       \E names \in {{"Player 1"}, {"Player 1", "Player 2"}} :
        /\ BuildingsConfig_load_ok(buildings)
        /\ buildings_config = buildings
        /\ players = [name \in names |-> Player_new(name, "Planet1", buildings)]
        /\ current_player = "Player 1"
        /\ turn = Turn_new(1)
        /\ is_running = TRUE
        /\ last = NoCommand
        /\ history = NewHistory(players)
    /\ unit = NoUnit
    /\ app = NoApp

SpecCore == InitCore /\ [][NextCore]_vars

\* ---------------------------------------------------------------- the log, filled past its limit
MaxEvictions == 3

\* App::new; added counts the calls of add_log, and every message of a run
\* has the level chosen here
InitLog ==
    /\ \E buildings \in BuildingsConfigInputs : GameCore_new(buildings)
    /\ unit = NoUnit
    /\ app \in {[logs |-> <<>>, added |-> 0, level |-> level, pc |-> "add_log"] :
                    level \in {"Info", "Error", "Success"}}

\* App::add_log called with a message whose text is its number of arrival
call_add_log ==
    /\ app.pc = "add_log"
    /\ app.added < MAX_LOGS + MaxEvictions
    /\ LET text == <<app.added + 1>>
           message == CASE app.level = "Info" -> LogMessage_info(text)
                        [] app.level = "Error" -> LogMessage_error(text)
                        [] app.level = "Success" -> LogMessage_success(text)
       IN app' = [app EXCEPT !.logs = add_log(@, message), !.added = @ + 1]
    /\ UNCHANGED <<game, unit>>

NextLog == call_add_log

SpecLog == InitLog /\ [][NextLog]_vars

\* ---------------------------------------------------------------- a Turn, driven directly
\* Turn::new with any number, outside a GameCore
InitTurn ==
    /\ turn \in {Turn_new(turn_number) : turn_number \in 1..MaxTurn}
    /\ buildings_config = <<>>
    /\ players = <<>>
    /\ current_player = ""
    /\ is_running = FALSE
    /\ last = NoCommand
    /\ history = NewHistory(<<>>)
    /\ unit = NoUnit
    /\ app = NoApp

\* the public methods of Turn that write: next_turn and reset_turn
NextTurn ==
    \/ /\ turn < MaxTurn
       /\ turn' = next_turn(turn)
       /\ UNCHANGED <<buildings_config, players, current_player, is_running,
                      last, history, unit, app>>
    \/ /\ turn' = reset_turn(turn)
       /\ UNCHANGED <<buildings_config, players, current_player, is_running,
                      last, history, unit, app>>

SpecTurn == InitTurn /\ [][NextTurn]_vars

\* ================================================================ properties
\* every building of every planet of every player, as <<player, planet, id>>
Slots ==
    UNION {UNION {{<<pl, pn, id>> : id \in DOMAIN players[pl].planets[pn].buildings} :
                  pn \in DOMAIN players[pl].planets} :
           pl \in DOMAIN players}

SlotBuilding(slot) == players[slot[1]].planets[slot[2]].buildings[slot[3]]

\* a Build command that gets as far as Planet::build, judged on the state before it
ReachesPlanetBuild(command) ==
    /\ command.kind = "Build"
    /\ current_player \in DOMAIN players
    /\ command.planet \in DOMAIN players[current_player].planets
    /\ find_building_id(BuildingTypeId_all, command.building) # None
    /\ Unwrap(find_building_id(BuildingTypeId_all, command.building))
            \in DOMAIN buildings_config

TargetId(command) == Unwrap(find_building_id(BuildingTypeId_all, command.building))

TargetPlanet(command) == players[current_player].planets[command.planet]

TargetBuilding(command) == TargetPlanet(command).buildings[TargetId(command)]

\* C1: a Build command that returns an error leaves every planet exactly as it
\* was before the call (level, production_rate and capacity included).
C1_FailedBuildChangesNothing ==
    [][(last'.command.kind = "Build" /\ ~last'.result.ok) => players' = players]_vars

\* C2: a Build command on an owned planet whose target building is at max_level
\* returns MaxLevelReached and leaves the turn counter unchanged.
C2_BuildAtMaxLevelIsMaxLevelReached ==
    [][(/\ ReachesPlanetBuild(last'.command)
        /\ TargetBuilding(last'.command).level
             = buildings_config[TargetId(last'.command)].max_level)
       => (last'.result.error = "MaxLevelReached" /\ turn' = turn)]_vars

\* C3: in every state reached by Build, EndTurn, Help and Quit commands every
\* building of every planet has level <= max_level of its configuration.
C3_LevelAtMostMaxLevel ==
    \A slot \in Slots : SlotBuilding(slot).level <= buildings_config[slot[3]].max_level

\* C3 witness: after a Build command some upgradeable building stands at its max_level
C3_Witness ==
    /\ last.command.kind = "Build"
    /\ \E slot \in Slots :
        /\ buildings_config[slot[3]].max_level > 0
        /\ SlotBuilding(slot).level = buildings_config[slot[3]].max_level

\* C4: upgrade() on a building of any shape at max_level fails with
\* MaxLevelReached{current = level, max = max_level} and changes nothing; below
\* max_level a successful upgrade() raises the level by exactly 1.
C4_UpgradeStateMachine ==
    unit.op = "upgrade" =>
        /\ unit.before.level = unit.config.max_level =>
            /\ unit.result = Err("MaxLevelReached",
                                 <<unit.before.level, unit.config.max_level>>)
            /\ unit.building = unit.before
        /\ (unit.before.level < unit.config.max_level /\ unit.result.ok) =>
            unit.building.level = unit.before.level + 1

\* C4 witness: upgrade() was called on a storage that stood at a max_level above 0
C4_Witness ==
    /\ unit.op = "upgrade"
    /\ unit.before.variant \in StorageIds
    /\ unit.config.max_level > 0
    /\ unit.before.level = unit.config.max_level

\* C5: in every reachable state every Storage has 0 <= current_amount <= capacity.
C5_AmountWithinCapacity ==
    \A slot \in Slots :
        slot[3] \in StorageIds =>
            /\ 0 <= SlotBuilding(slot).current_amount
            /\ SlotBuilding(slot).current_amount <= SlotBuilding(slot).capacity

\* C6: add_resource(amount) returns min(amount, capacity - current_amount),
\* adds exactly that, and leaves 0 <= current_amount <= capacity, for every input.
C6_AddResourceReturnsMin ==
    unit.op = "add_resource" =>
        /\ unit.actual_added
            = Min(unit.amount_to_add, unit.before.capacity - unit.before.current_amount)
        /\ unit.building.current_amount = unit.before.current_amount + unit.actual_added
        /\ unit.building.current_amount <= unit.building.capacity
        /\ unit.building.current_amount >= 0

\* the cost of the next level of the target, per resource, as Option
NextCost(command, resource) ==
    LET cost == buildings_config[TargetId(command)].upgrade_cost
        level == TargetBuilding(command).level
    IN CASE resource = "Energy" -> get(cost.energy, level)
         [] resource = "Minerals" -> get(cost.minerals, level)
         [] resource = "Gas" -> get(cost.gas, level)

Stored(command, resource) ==
    TargetPlanet(command).buildings[storage_id(resource)].current_amount

SomeCostExceeds(command) ==
    \E resource \in Resource :
        \E cost \in NextCost(command, resource) : cost > Stored(command, resource)

AllCostsPresent(command) ==
    \A resource \in Resource : NextCost(command, resource) # None

AffordabilityErrors ==
    {"InsufficientResources", "EnergyCostMismatch", "MineralsCostMismatch",
     "GasCostMismatch"}

\* C7 as stated: the build fails with InsufficientResources whenever at least one
\* of the energy, minerals or gas costs at index level exceeds the stored amount.
C7_InsufficientWheneverACostExceeds ==
    [][(ReachesPlanetBuild(last'.command) /\ SomeCostExceeds(last'.command))
       => last'.result.error = "InsufficientResources"]_vars

\* C7 amended: when all three cost tables have an entry at index level, the build
\* fails with InsufficientResources if at least one cost exceeds the stored amount
\* and passes the affordability check exactly when all three stored amounts are
\* >= their cost (equality passes).
C7_InsufficientWhenAllCostsPresent ==
    [][(ReachesPlanetBuild(last'.command) /\ AllCostsPresent(last'.command))
       => /\ SomeCostExceeds(last'.command)
                => last'.result.error = "InsufficientResources"
          /\ (last'.result.error \notin AffordabilityErrors)
                <=> \A resource \in Resource :
                        Stored(last'.command, resource)
                            >= Unwrap(NextCost(last'.command, resource))]_vars

\* C7 witness: a Build command was refused for insufficient resources
C7_Witness ==
    /\ last.command.kind = "Build"
    /\ last.result.error = "InsufficientResources"

\* C8: with a validated configuration no upgrade of a Productor or Storage from a
\* level below max_level fails with WrongBuildingConfiguration.
C8_NoWrongConfigurationBelowMaxLevel ==
    [][(/\ ReachesPlanetBuild(last'.command)
        /\ TargetId(last'.command) \in ProductorIds \cup StorageIds
        /\ buildings_config[TargetId(last'.command)].production
             \cup buildings_config[TargetId(last'.command)].storage # {}
        /\ TargetBuilding(last'.command).level
             < buildings_config[TargetId(last'.command)].max_level)
       => last'.result.error # "WrongBuildingConfiguration"]_vars

\* C9: in every reachable state a Productor with level > 0 has production_rate =
\* rate_per_level[level] and a Storage with level > 0 has capacity =
\* capacity_per_level[level].
C9_DerivedFieldFollowsTable ==
    \A slot \in Slots :
        LET building == SlotBuilding(slot)
            config == buildings_config[slot[3]]
        IN building.level > 0 =>
            /\ slot[3] \in ProductorIds =>
                \E production \in config.production :
                    building.production_rate
                        \in get_rate_for_level(production, building.level)
            /\ slot[3] \in StorageIds =>
                \E storage \in config.storage :
                    building.capacity \in get_capacity_for_level(storage, building.level)

\* C10: a Productor at level 0 has production_rate 0 and a Storage at level 0 has
\* capacity 0 (so a planet of level-0 buildings produces and stores nothing).
C10_ZeroAtLevelZero ==
    \A slot \in Slots :
        LET building == SlotBuilding(slot) IN
        building.level = 0 =>
            /\ slot[3] \in ProductorIds => building.production_rate = 0
            /\ slot[3] \in StorageIds =>
                (building.capacity = 0 /\ building.current_amount = 0)

\* C14: execute_command with Quit sets the running flag to false, and once the
\* flag is false the application loop makes no further execute_command call:
\* the next iteration tests is_running first and leaves the loop before it
\* reads another input event.
C14_NoCommandAfterQuit ==
    [][/\ (app'.calls # app.calls /\ last'.command.kind = "Quit") => ~is_running'
       /\ ~is_running => (app'.calls = app.calls /\ app'.pc = "done")]_vars

\* C14 witness: the loop has ended after a Quit typed at the command input
C14_Witness ==
    /\ last.command.kind = "Quit"
    /\ app.calls > 0
    /\ ~is_running
    /\ app.pc = "done"
    /\ app.exit

\* the planets of every player, as <<player, planet>>
Planets == UNION {{<<pl, pn>> : pn \in DOMAIN players[pl].planets} : pl \in DOMAIN players}

PlanetAt(at) == players[at[1]].planets[at[2]]

\* C11: with a producer of constant rate R and a storage of capacity C that was
\* empty, k consecutive successful EndTurn commands with no Build in between
\* leave the amount at min(k * R, C); the amount never exceeds C.
C11_AmountAfterEndTurns ==
    \A z \in history.zero_at_start :
        LET planet == players[z[1]].planets[z[2]]
            R == get_production_rates(planet)[z[3]]
            C == get_resource_capacity(planet, z[3])
        IN get_resource_amount(planet, z[3]) = Min(history.streak * R, C)

\* C11 witness: after at least two EndTurns in a row a storage that started
\* empty is full, its producer having made more than fits
C11_Witness ==
    /\ last.command.kind = "EndTurn"
    /\ history.streak >= 2
    /\ \E z \in history.zero_at_start :
        LET planet == players[z[1]].planets[z[2]]
            R == get_production_rates(planet)[z[3]]
            C == get_resource_capacity(planet, z[3])
        IN /\ R > 0
           /\ C > R
           /\ history.streak * R > C
           /\ get_resource_amount(planet, z[3]) = C

\* C12: the turn counter starts at 1 and every successful EndTurn raises it by
\* exactly 1, so after n successful EndTurns it is 1 + n; the result of a
\* successful EndTurn reports the number the turn had before the increment.
C12_TurnCounter ==
    /\ turn = 1 + history.end_turns
    /\ (last.command.kind = "EndTurn" /\ last.result.ok)
            => last.result.detail = <<turn - 1>>

C12_Witness ==
    /\ last.command.kind = "EndTurn"
    /\ last.result.ok
    /\ history.end_turns = 2
    /\ turn = 3

\* a building name that matches none of the nine BuildingTypeId names,
\* upper and lower case taken as equal
NoBuildingNamed(building_name) ==
    \A id \in BuildingTypeId : to_lowercase(id) # to_lowercase(building_name)

\* C13: a Build command for a planet of the current player whose building name
\* matches none of the nine names returns the not-recognized error and leaves
\* every planet and the turn counter unchanged.
C13_UnknownBuildingRejected ==
    [][(/\ last'.command.kind = "Build"
        /\ current_player \in DOMAIN players
        /\ last'.command.planet \in DOMAIN players[current_player].planets
        /\ NoBuildingNamed(last'.command.building))
       => (/\ last'.result.error = "BuildingNotRecognized"
           /\ players' = players
           /\ turn' = turn)]_vars

C13_Witness ==
    /\ last.command.kind = "Build"
    /\ current_player \in DOMAIN players
    /\ last.command.planet \in DOMAIN players[current_player].planets
    /\ NoBuildingNamed(last.command.building)
    /\ last.result.error = "BuildingNotRecognized"

\* an input whose first token is the name or an alias of one of the four
\* commands and whose argument count is the one its definition expects
WellFormedFor(input, name) ==
    /\ input # <<>>
    /\ \E i \in 1..Len(CommandsConfig) :
        LET def == CommandsConfig[i] IN
        /\ def.name = name
        /\ \/ to_lowercase(input[1]) = def.name
           \/ \E j \in 1..Len(def.aliases) : to_lowercase(input[1]) = def.aliases[j]
        /\ def.expected_args = Len(input) - 1

KindOfName == [name \in {"help", "build", "endturn", "quit"} |->
    CASE name = "help" -> "Help"
      [] name = "build" -> "Build"
      [] name = "endturn" -> "EndTurn"
      [] name = "quit" -> "Quit"]

\* C15: an input whose first token is a registered name or alias of help,
\* build, endturn or quit and whose argument count matches the definition is
\* dispatched to the kind of that command and never ends in unknown-internal.
C15_WellFormedInputIsDispatched ==
    \A name \in DOMAIN KindOfName :
        (history.input # None /\ WellFormedFor(Unwrap(history.input), name))
            => (/\ last.command.kind = KindOfName[name]
                /\ last.result.error # "UnknownInternal")

\* the first of the three cost tables without an entry at the level
FirstMissingCost(command) ==
    LET level == TargetBuilding(command).level
        cost == buildings_config[TargetId(command)].upgrade_cost
    IN IF get(cost.energy, level) = None THEN "EnergyCostMismatch"
       ELSE IF get(cost.minerals, level) = None THEN "MineralsCostMismatch"
       ELSE IF get(cost.gas, level) = None THEN "GasCostMismatch"
       ELSE ""

\* C16: Planet::build reads the energy, minerals and gas cost at the index of
\* the current level; when one of the tables has no entry there (an empty gas
\* table included) the build fails with the mismatch error of that table,
\* whatever the stored amounts are, and not with insufficient-resources.
C16_MissingCostIsMismatch ==
    [][(ReachesPlanetBuild(last'.command) /\ FirstMissingCost(last'.command) # "")
       => (/\ last'.result.error = FirstMissingCost(last'.command)
           /\ last'.result.error # "InsufficientResources")]_vars

\* C16 witness: a Build stopped by the empty gas table while the planet could
\* not have paid the minerals either
C16_Witness ==
    /\ ReachesPlanetBuild(last.command)
    /\ last.result.error = "GasCostMismatch"
    /\ buildings_config[TargetId(last.command)].upgrade_cost.gas = <<>>
    /\ \E cost \in get(buildings_config[TargetId(last.command)].upgrade_cost.minerals,
                       TargetBuilding(last.command).level) :
            cost > get_resource_amount(TargetPlanet(last.command), "Minerals")

\* C17: every planet holds exactly one building for each of the nine
\* BuildingTypeId values, each slot holds the variant of its id, all nine are at
\* level 0 when the planet is created, and no command adds or removes a slot.
C17_Completeness ==
    \A at \in Planets :
        LET buildings == PlanetAt(at).buildings IN
        /\ DOMAIN buildings = BuildingTypeId
        /\ Cardinality(DOMAIN buildings) = 9
        /\ \A id \in DOMAIN buildings : buildings[id].variant = id
        /\ history.input = None => \A id \in DOMAIN buildings : buildings[id].level = 0

\* C17 witness: the nine slots are all there after a Build that raised a level
\* and an EndTurn
C17_Witness ==
    /\ history.end_turns > 0
    /\ last.command.kind = "Build"
    /\ last.result.ok
    /\ \A at \in Planets : DOMAIN PlanetAt(at).buildings = BuildingTypeId
    /\ \E slot \in Slots : SlotBuilding(slot).level > 0

\* the stored amount of every resource on every planet
Amounts ==
    [at \in Planets |->
        [resource \in Resource |-> get_resource_amount(PlanetAt(at), resource)]]

\* C18: a successful Build debits nothing: the stored energy, minerals and gas
\* of the planet are the same after the command as before it.
C18_BuildDebitsNothing ==
    [][(last'.command.kind = "Build" /\ last'.result.ok) => Amounts' = Amounts]_vars

\* C18 witness: a Build has succeeded whose minerals cost was above 0
C18_Witness ==
    /\ ReachesPlanetBuild(last.command)
    /\ last.result.ok
    /\ TargetBuilding(last.command).level > 0
    /\ \E cost \in get(buildings_config[TargetId(last.command)].upgrade_cost.minerals,
                       TargetBuilding(last.command).level - 1) :
            /\ cost > 0
            /\ get_resource_amount(TargetPlanet(last.command), "Minerals") >= cost

\* the producer new_zero binds to each resource
ProducerOf == [resource \in Resource |->
    CASE resource = "Energy" -> "FusionReactor"
      [] resource = "Minerals" -> "MineralMine"
      [] resource = "Gas" -> "GasExtractor"]

\* a planet holding only the buildings ids
WithOnly(planet, ids) ==
    [planet EXCEPT !.buildings = [id \in ids |-> planet.buildings[id]]]

\* C19: get_production_rates returns a map with exactly the keys Energy,
\* Minerals and Gas; each value is the sum of production_rate over the
\* producers of that resource, and 0 for a resource without a producer.
C19_ProductionRates ==
    \A at \in Planets : \A absent \in SUBSET ProductorIds :
        LET planet == WithOnly(PlanetAt(at), DOMAIN PlanetAt(at).buildings \ absent)
            rates == get_production_rates(planet)
        IN /\ DOMAIN rates = Resource
           /\ \A resource \in Resource :
                /\ {id \in DOMAIN planet.buildings :
                        /\ planet.buildings[id].variant \in ProductorIds
                        /\ planet.buildings[id].resource = resource}
                     = {ProducerOf[resource]} \ absent
                /\ rates[resource] =
                     IF ProducerOf[resource] \in absent THEN 0
                     ELSE planet.buildings[ProducerOf[resource]].production_rate

\* C19 witness: after an EndTurn one resource is produced and another is not
C19_Witness ==
    /\ last.command.kind = "EndTurn"
    /\ \E at \in Planets : \E produced, idle \in Resource :
        /\ get_production_rates(PlanetAt(at))[produced] > 0
        /\ get_production_rates(PlanetAt(at))[idle] = 0
        /\ get_resource_amount(PlanetAt(at), produced) > 0

\* C20: generate_resources fails on no reachable planet, in whatever order the
\* production map is iterated, so an EndTurn issued while the current player
\* exists always succeeds.
C20_GenerateResourcesNeverFails ==
    /\ \A at \in Planets : \A order \in Orders(Resource) :
            generate_resources(PlanetAt(at), order).result.ok
    /\ (last.command.kind = "EndTurn" /\ current_player \in DOMAIN players)
            => last.result.ok

\* C20 witness: an EndTurn has stored gas and succeeded
C20_Witness ==
    /\ last.command.kind = "EndTurn"
    /\ last.result.ok
    /\ current_player \in DOMAIN players
    /\ \E at \in Planets :
        /\ get_production_rates(PlanetAt(at))["Gas"] > 0
        /\ get_resource_amount(PlanetAt(at), "Gas") > 0

\* C21: the current player never changes: after any sequence of commands,
\* EndTurn with several players stored included, it is the player set at
\* construction, and no command changes it.
C21_CurrentPlayerNeverChanges ==
    /\ [](current_player = "Player 1")
    /\ [][current_player' = current_player]_vars

\* C21 witness: with two players stored, two turns have ended and the player
\* is still the first
C21_Witness ==
    /\ DOMAIN players = {"Player 1", "Player 2"}
    /\ last.command.kind = "EndTurn"
    /\ last.result.ok
    /\ history.end_turns >= 2
    /\ current_player = "Player 1"

\* C22 (as claimed): a Build whose building name is unrecognized and whose
\* planet is not owned by the current player returns building-not-recognized.
C22_BuildingResolvedFirst ==
    [][(/\ last'.command.kind = "Build"
        /\ current_player \in DOMAIN players
        /\ last'.command.planet \notin DOMAIN players[current_player].planets
        /\ NoBuildingNamed(last'.command.building))
       => last'.result.error = "BuildingNotRecognized"]_vars

\* C22 (amended): the Build arm looks the planet up before it resolves the
\* building name: with both names unknown the error is planet-not-found, and
\* nothing changes.
C22_PlanetResolvedFirst ==
    [][(/\ last'.command.kind = "Build"
        /\ current_player \in DOMAIN players
        /\ last'.command.planet \notin DOMAIN players[current_player].planets
        /\ NoBuildingNamed(last'.command.building))
       => (/\ last'.result.error = "PlanetNotFound"
           /\ players' = players
           /\ turn' = turn)]_vars

\* C22 witness: a Build naming neither a building nor an owned planet has
\* ended in planet-not-found
C22_Witness ==
    /\ last.command.kind = "Build"
    /\ current_player \in DOMAIN players
    /\ last.command.planet \notin DOMAIN players[current_player].planets
    /\ NoBuildingNamed(last.command.building)
    /\ last.result.error = "PlanetNotFound"

\* C23: a successful Build raises the level of exactly the targeted building
\* of the targeted planet by 1 and recomputes that building's production_rate
\* or capacity; every other building, the turn counter and the running flag
\* are unchanged.
C23_BuildFrame ==
    [][(last'.command.kind = "Build" /\ last'.result.ok) =>
        LET id == TargetId(last'.command)
            target == <<current_player, last'.command.planet, id>>
            config == buildings_config[id]
        IN
        /\ turn' = turn
        /\ is_running' = is_running
        /\ \A slot \in Slots :
            LET old == SlotBuilding(slot)
                new == players'[slot[1]].planets[slot[2]].buildings[slot[3]]
            IN IF slot # target THEN new = old
               ELSE /\ new.level = old.level + 1
                    /\ new.variant = old.variant
                    /\ id \in ProductorIds =>
                        new = [old EXCEPT !.level = @ + 1,
                                 !.production_rate = Unwrap(get_rate_for_level(
                                     Unwrap(config.production), old.level + 1))]
                    /\ id \in StorageIds =>
                        new = [old EXCEPT !.level = @ + 1,
                                 !.capacity = Unwrap(get_capacity_for_level(
                                     Unwrap(config.storage), old.level + 1))]]_vars

\* C23 witness: a Build has raised a producer above level 0 with a rate that
\* differs from the one of the level below
C23_Witness ==
    /\ ReachesPlanetBuild(last.command)
    /\ last.result.ok
    /\ TargetId(last.command) \in ProductorIds
    /\ \E prod \in buildings_config[TargetId(last.command)].production :
        /\ TargetBuilding(last.command).production_rate
             = prod.rate_per_level[TargetBuilding(last.command).level + 1]
        /\ TargetBuilding(last.command).production_rate
             # prod.rate_per_level[TargetBuilding(last.command).level]

\* C24: the turn counter changes only in a successful EndTurn step, stored
\* amounts change only in an EndTurn step, building levels change only in a
\* Build step, the running flag changes only in a Quit step, and Help changes
\* nothing.
C24_WhatChangesWhere ==
    [][/\ turn' # turn => (last'.command.kind = "EndTurn" /\ last'.result.ok)
       /\ Amounts' # Amounts => last'.command.kind = "EndTurn"
       /\ (\E slot \in Slots :
              players'[slot[1]].planets[slot[2]].buildings[slot[3]].level
                # SlotBuilding(slot).level)
            => last'.command.kind = "Build"
       /\ is_running' # is_running => last'.command.kind = "Quit"
       /\ last'.command.kind = "Help" =>
            UNCHANGED <<buildings_config, players, current_player, turn, is_running>>
      ]_vars

\* C24 witness: a turn has ended, a level was raised, an amount is stored, the
\* game has been quit and the last command was Help
C24_Witness ==
    /\ last.command.kind = "Help"
    /\ turn > 1
    /\ ~is_running
    /\ \E slot \in Slots : SlotBuilding(slot).level > 0
    /\ \E at \in Planets : \E resource \in Resource : Amounts[at][resource] > 0

\* C25: empty input, a first token that is no registered name or alias, and an
\* argument count that matches no definition of the name make execute_command
\* return a command error and leave the turn counter, the running flag and
\* every building and storage unchanged.
C25_RejectedInputChangesNothing ==
    [][(\A name \in DOMAIN KindOfName :
            ~WellFormedFor(Unwrap(history'.input), name))
       => (/\ ~last'.result.ok
           /\ last'.command.kind = "ParseError"
           /\ UNCHANGED <<buildings_config, players, current_player, turn,
                          is_running>>)]_vars

\* C25 witness: after a turn has ended a build with one argument was rejected
C25_Witness ==
    /\ history.input = Some(<<"build", "mineralmine">>)
    /\ last.result.error = "WrongArgCount"
    /\ turn > 1

\* C29: the building name of a Build is matched ignoring ASCII case, the
\* planet name exactly: a planet argument that differs from the owned
\* planet's name only in letter case fails with planet-not-found and changes
\* no state, while a building name in another letter case reaches the build.
C29_PlanetNameMatchedExactly ==
    [][(last'.command.kind = "Build" /\ current_player \in DOMAIN players) =>
        LET planets == players[current_player].planets
            command == last'.command
        IN
        /\ (/\ command.planet \notin DOMAIN planets
            /\ \E pn \in DOMAIN planets : to_lowercase(pn) = to_lowercase(command.planet))
           => (/\ last'.result.error = "PlanetNotFound"
               /\ UNCHANGED <<buildings_config, players, current_player, turn,
                              is_running>>)
        /\ (/\ command.planet \in DOMAIN planets
            /\ \E id \in BuildingTypeId :
                id # command.building /\ to_lowercase(id) = to_lowercase(command.building))
           => last'.result = Planet_build(planets[command.planet], TargetId(command),
                                          buildings_config[TargetId(command)]).result
      ]_vars

\* C29 witness: planet1 was not found although Planet1 is owned
C29_Witness ==
    /\ last.command.kind = "Build"
    /\ last.command.planet = "planet1"
    /\ "Planet1" \in DOMAIN players[current_player].planets
    /\ last.result.error = "PlanetNotFound"

\* C30: the running flag is true after construction, and once a Quit has set
\* it to false it is false in every later state, whatever commands follow.
C30_RunningFlag ==
    /\ [](history.input = None => is_running)
    /\ [][/\ last'.command.kind = "Quit" => ~is_running'
          /\ ~is_running => ~is_running']_vars

\* C30 witness: a turn was ended after the Quit and the flag is still false
C30_Witness ==
    /\ ~is_running
    /\ last.command.kind = "EndTurn"
    /\ last.result.ok

\* C26: when generate_resources fails on a planet, process_turn_end stops
\* there and the error is the result of the EndTurn: the planets iterated
\* before it keep what they generated, the planets after it are unchanged, and
\* the turn counter is not incremented.
C26_TurnEndStopsAtFailure ==
    [][(/\ last'.command.kind = "EndTurn"
        /\ ~last'.result.ok
        /\ current_player \in DOMAIN players) =>
        LET before == players[current_player].planets
            after == players'[current_player].planets
        IN
        /\ turn' = turn
        /\ last'.result.error \in {"BuildingNotBuilt", "IncorrectBuildingType"}
        /\ \E failed \in 1..Len(history'.planet_order) :
            LET planet_order == history'.planet_order IN
            /\ \A i \in 1..(failed - 1) :
                \E order \in Orders(Resource) :
                    LET generated == generate_resources(before[planet_order[i]], order) IN
                    /\ generated.result.ok
                    /\ after[planet_order[i]] = generated.planet
            /\ \E order \in Orders(Resource) :
                    LET generated == generate_resources(before[planet_order[failed]], order) IN
                    /\ generated.result = last'.result
                    /\ after[planet_order[failed]] = generated.planet
            /\ \A i \in (failed + 1)..Len(planet_order) :
                    after[planet_order[i]] = before[planet_order[i]]]_vars

\* C26 witness: the first EndTurn failed on a planet without gas tank after
\* the other planet had stored the gas it produced
C26_Witness ==
    /\ last.command.kind = "EndTurn"
    /\ last.result.error = "BuildingNotBuilt"
    /\ turn = 1
    /\ \E done, failed \in DOMAIN players[current_player].planets :
        LET planets == players[current_player].planets IN
        /\ "GasTank" \notin DOMAIN planets[failed].buildings
        /\ get_production_rates(planets[failed])["Gas"] > 0
        /\ get_resource_amount(planets[done], "Gas") > 0

\* C27 (as claimed): load accepts a building configuration exactly when every
\* non-empty upgrade-cost, production-rate and storage-capacity array has
\* length max_level; an empty array of any of these kinds is accepted.
C27_LoadAcceptsNonEmptyOfMaxLevel ==
    (/\ unit.op = "load"
     /\ \A name \in DOMAIN unit.table :
            Len(unit.table[name].building_time.time) = unit.table[name].max_level) =>
        (unit.result.ok <=>
            \A name \in DOMAIN unit.table :
                LET config == unit.table[name]
                    fits(array) == array = <<>> \/ Len(array) = config.max_level
                IN /\ fits(config.upgrade_cost.energy)
                   /\ fits(config.upgrade_cost.minerals)
                   /\ fits(config.upgrade_cost.gas)
                   /\ \A prod \in config.production : fits(prod.rate_per_level)
                   /\ \A stor \in config.storage : fits(stor.capacity_per_level))

\* C27 (amended): load accepts exactly when, for every entry, the energy and
\* minerals cost arrays, the building-time array, the rate array of a present
\* production section and the capacity array of a present storage section
\* have length max_level, and the gas cost array has length max_level or 0.
C27_LoadAcceptsExactLengths ==
    unit.op = "load" =>
        (unit.result.ok <=>
            \A name \in DOMAIN unit.table :
                LET config == unit.table[name] IN
                /\ Len(config.upgrade_cost.energy) = config.max_level
                /\ Len(config.upgrade_cost.minerals) = config.max_level
                /\ Len(config.upgrade_cost.gas) \in {0, config.max_level}
                /\ Len(config.building_time.time) = config.max_level
                /\ \A prod \in config.production :
                        Len(prod.rate_per_level) = config.max_level
                /\ \A stor \in config.storage :
                        Len(stor.capacity_per_level) = config.max_level)

\* C27 witness: a table whose mine has two levels, an empty gas cost array and
\* a production section was loaded
C27_Witness ==
    /\ unit.op = "load"
    /\ unit.result.ok
    /\ "MineralMine" \in DOMAIN unit.table
    /\ unit.table["MineralMine"].max_level = 2
    /\ unit.table["MineralMine"].upgrade_cost.gas = <<>>
    /\ unit.table["MineralMine"].production # None

\* C28: GameCore::new on a table without an entry for one of the nine building
\* types returns a typed configuration error and does not panic.
C28_MissingEntryIsTypedError ==
    (unit.op = "new" /\ \E id \in BuildingTypeId : id \notin DOMAIN unit.table)
        => (~unit.result.ok /\ unit.result.error # "panic")

\* C31: the loop calls execute_command at most once per iteration, and only in
\* the handling of a key event with the command pane focused and a buffer that
\* is not empty after trimming; the call receives the trimmed buffer and the
\* step leaves the buffer empty.
C31_OneCommandPerIteration ==
    [][(app'.calls # app.calls \/ game' # game) =>
            /\ app'.calls = app.calls + 1
            /\ app.pc = "event"
            /\ app'.pc = "loop"
            /\ app.focused_pane = "CommandInput"
            /\ trim(app.input_buffer) # <<>>
            /\ history'.input = Some(split_whitespace(trim(app.input_buffer)))
            /\ app'.input_buffer = <<>>]_vars

\* C31 witness: two lines were submitted with Enter, the second one padded
\* with blanks, and the buffer is empty again
C31_Witness ==
    /\ app.pc = "loop"
    /\ app.calls = 2
    /\ history.input = Some(<<"q">>)
    /\ app.input_buffer = <<>>

\* C32: what a turn end stores does not depend on the iteration order of the
\* resources of a planet or of the planets of a player: every order gives the
\* player the EndTurn command has left; and on the current player extended by a
\* second, newly created planet, every order of the planets and of the
\* resources gives each planet what generate_resources gives it alone.
C32_OrderIndependent ==
    /\ [](current_player \in DOMAIN players =>
            LET player == players[current_player]
                names == DOMAIN player.planets \cup {"Planet2"}
                two == [player EXCEPT !.planets =
                            [pn \in names |->
                                IF pn \in DOMAIN player.planets THEN player.planets[pn]
                                ELSE Planet_new(pn, buildings_config)]]
                alone == [pn \in names |->
                            generate_resources(two.planets[pn],
                                               <<"Energy", "Minerals", "Gas">>).planet]
            IN \A planet_order \in Orders(names) : \A order \in Orders(Resource) :
                process_turn_end(two, planet_order,
                                 [pn \in names |-> order]).player.planets = alone)
    /\ [][(last'.command.kind = "EndTurn" /\ current_player \in DOMAIN players) =>
            \A planet_order \in Orders(DOMAIN players[current_player].planets) :
            \A resource_orders \in
                    [DOMAIN players[current_player].planets -> Orders(Resource)] :
                process_turn_end(players[current_player], planet_order, resource_orders)
                    = [result |-> Ok(<<>>), player |-> players'[current_player]]
         ]_vars

\* C32 witness: a turn end has stored all three resources on a planet
C32_Witness ==
    /\ last.command.kind = "EndTurn"
    /\ last.result.ok
    /\ history.streak = 1
    /\ \E at \in Planets : \A resource \in Resource :
        /\ get_production_rates(PlanetAt(at))[resource] > 0
        /\ get_resource_amount(PlanetAt(at), resource) > 0

\* C33: once remove_player has removed the current player, every Build and
\* every EndTurn command returns the current-player-not-found error, the turn
\* counter stays as it is, and the accessors report no planets: planet count
\* 0, an empty list of names, no status. No command changes a stored player;
\* the players map changes only by a further remove_player.
C33_AfterCurrentPlayerRemoved ==
    /\ []((current_player \notin DOMAIN players /\ unit # NoUnit) =>
            /\ unit.op = "get_planet_count" => unit.value = 0
            /\ unit.op = "get_current_player_planet_names" => unit.value = <<>>
            /\ unit.op = "get_current_player_planet_status" => unit.value = None
            /\ unit.op # "get_status")
    /\ [][current_player \notin DOMAIN players =>
            /\ turn' = turn
            /\ \/ players' = players
               \/ /\ last' = last
                  /\ history' = history
                  /\ \E player_name \in DOMAIN players :
                        players' = [pl \in DOMAIN players \ {player_name} |-> players[pl]]
            /\ ((last' # last \/ history' # history)
                    /\ last'.command.kind \in {"Build", "EndTurn"})
                => last'.result = Err("CurrentPlayerNotFound", <<>>)
         ]_vars

\* C33 witness: the current player is gone, an EndTurn has failed on it and
\* the planet count was read afterwards
C33_Witness ==
    /\ current_player \notin DOMAIN players
    /\ last.command.kind = "EndTurn"
    /\ last.result.error = "CurrentPlayerNotFound"
    /\ unit # NoUnit
    /\ unit.op = "get_planet_count"

\* C34: get_status changes no state, and its snapshot holds the planet's name,
\* nine (name, level) entries, one per building, the map of
\* get_production_rates, for each of Energy, Minerals and Gas the pair
\* (current_amount, capacity) of the storage building of that resource, and
\* the planet count the caller passed.
C34_GetStatusSnapshot ==
    /\ []((unit # NoUnit /\ unit.op = "get_status") =>
            LET planet == players[current_player].planets[unit.planet_name]
                status == unit.value
            IN
            /\ status.planet_name = unit.planet_name
            /\ Cardinality(status.buildings) = 9
            /\ status.buildings = {<<id, planet.buildings[id].level>> : id \in BuildingTypeId}
            /\ DOMAIN status.production = Resource
            /\ \A resource \in Resource :
                status.production[resource] =
                    IF planet.buildings[ProducerOf[resource]].resource = resource
                    THEN planet.buildings[ProducerOf[resource]].production_rate
                    ELSE 0
            /\ DOMAIN status.storage = Resource
            /\ \A resource \in Resource :
                status.storage[resource] =
                    <<planet.buildings[storage_id(resource)].current_amount,
                      planet.buildings[storage_id(resource)].capacity>>
            /\ status.planet_count = unit.total_planet_count)
    /\ [][(unit' # NoUnit /\ unit'.op = "get_status") => game' = game]_vars

\* C34 witness: the snapshot of a planet that has upgraded a building, stores
\* minerals below the capacity and was passed a count other than its player's
C34_Witness ==
    /\ unit # NoUnit
    /\ unit.op = "get_status"
    /\ unit.total_planet_count = 2
    /\ \E entry \in unit.value.buildings : entry[2] > 0
    /\ unit.value.storage["Minerals"][1] > 0
    /\ unit.value.storage["Minerals"][1] < unit.value.storage["Minerals"][2]

\* C35: the log never holds more than 100 messages; it holds the messages
\* added last, in the order they arrived, so a message added to a full log
\* has pushed out the oldest one.
C35_LogBoundedFifo ==
    /\ Len(app.logs) <= 100
    /\ Len(app.logs) = Min(app.added, 100)
    /\ \A i \in 1..Len(app.logs) :
        /\ app.logs[i].text = <<app.added - Len(app.logs) + i>>
        /\ app.logs[i].level = app.level

\* C35 witness: two messages were added to a full log, which begins with the
\* third message
C35_Witness ==
    /\ app.added = 102
    /\ Len(app.logs) = 100
    /\ app.logs[1].text = <<3>>
    /\ app.logs[100].text = <<102>>
====
